---- MODULE Spec2Model ----
(***************************************************************************)
(* Odds acquisition engine of DarkHorses-Backend.                          *)
(*                                                                         *)
(*   Spec          change-detection upsert engine                          *)
(*                 (live-odds-worker/live_odds_client.py)                  *)
(*   SpecSched     live-odds control loop (live_odds/cron_live.py,         *)
(*                 odds_api/live_odds/cron_live.py)                        *)
(*   SpecInterval  proximity -> polling interval                           *)
(*                 (LiveOddsScheduler.get_optimal_interval)                *)
(***************************************************************************)
EXTENDS Integers, Sequences, FiniteSets, TLC

None == "None"

(***************************************************************************)
(* Bounds of the model.                                                    *)
(***************************************************************************)
MaxOdds == 2
MaxBatchLen == 2
\* LIVE_BATCH_SIZE (default 100), scaled down so that one bookmaker's
\* records span several write batches.
batch_size == 1

(***************************************************************************)
(* Quotes (the dict records handed to update_live_odds).  `complete' says  *)
(* whether the non-identity required fields (race_date, course,            *)
(* horse_name, bookmaker_name, odds_timestamp) are all present.            *)
(***************************************************************************)
\* (race_id, horse_id, bookmaker_id): two bookmakers quoting one runner of
\* race r1, one bookmaker quoting a runner of race r2.
Keys == {<<"r1", "h1", "b1">>, <<"r1", "h1", "b2">>, <<"r2", "h1", "b1">>}
OddsValues == 1..MaxOdds

Quote(r, h, b, o, c) ==
    [race_id |-> r, horse_id |-> h, bookmaker_id |-> b,
     odds_decimal |-> o, complete |-> c]

ValidQuotes == {Quote(k[1], k[2], k[3], o, TRUE) : k \in Keys, o \in OddsValues}
IncompleteQuotes == {Quote(k[1], k[2], k[3], MaxOdds, FALSE) : k \in Keys}
MissingIdQuotes ==
    {Quote(None, "h1", "b1", 1, TRUE),
     Quote("r2", None, "b1", 1, TRUE),
     Quote("r2", "h1", None, 1, TRUE)}
QuoteDomain == ValidQuotes \cup IncompleteQuotes \cup MissingIdQuotes
BatchDomain == UNION {[1..n -> QuoteDomain] : n \in 1..MaxBatchLen}

\* race_ids argument of update_live_odds: omitted (race_ids=None) or an
\* explicit list.
RaceIdsArgs == {[given |-> FALSE, ids |-> {}], [given |-> TRUE, ids |-> {"r1"}]}

HasIds(q) == q.race_id # None /\ q.horse_id # None /\ q.bookmaker_id # None
KeyOf(q) == <<q.race_id, q.horse_id, q.bookmaker_id>>
SeqRange(s) == {s[i] : i \in DOMAIN s}
BatchKeys(s) == {KeyOf(q) : q \in {x \in SeqRange(s) : HasIds(x)}}
QuotesOf(s, k) == {i \in DOMAIN s : HasIds(s[i]) /\ KeyOf(s[i]) = k}

VARIABLES
    \* ---- change-detection upsert engine --------------------------------
    db,                       \* table ra_odds_live: key -> rows (odds_decimal)
    db_before,                \* the table as the last call found it
    disable_change_detection, \* DISABLE_CHANGE_DETECTION
    called,                   \* update_live_odds has run at least once
    odds_data,                \* batch of the last call
    race_ids_given,           \* the caller passed race_ids
    race_ids,                 \* race ids queried by the last call ({}: no read)
    read_failed,              \* the existing-odds query raised
    existing_odds_map,        \* key -> <<odds_decimal>> returned by the read, <<>> if none
    odds_to_upsert,           \* changed/new quotes of the last call, in order
    classified,               \* quotes the last call counted, per class
    writes,                   \* one entry per _upsert_batch call of the last call
    ret,                      \* statistics returned by the last call
    raised,                   \* the last call raised instead of returning
    cache_invalidated,        \* the last call deleted the API cache key
    \* ---- proximity -> interval ------------------------------------------
    variant,                  \* which cron_live.py: "live_odds" or "odds_api"
    races,                    \* the race list handed to get_optimal_interval
    decided,                  \* get_optimal_interval has been called
    interval,                 \* the interval it returned
    prev_races,               \* race list of the call before
    prev_interval,            \* interval returned by the call before
    ticks,                    \* minutes elapsed since the first call
    \* ---- live-odds control loop (run_continuous) ------------------------
    driver,                   \* "run_continuous" or "consolidated" (scheduler.py)
    pc,                       \* "start", "loop" or "halted"
    consecutive_errors,       \* self.consecutive_errors
    cycles,                   \* fetch cycles started so far
    failed_run,               \* failed cycles since the last cycle returning True
    last_event,               \* what happened in the last fetch cycle
    last_return,              \* its return value: "True", "False" or "none"
    prev_failed,              \* the fetch cycle before the last returned False
    pending_sleeps,           \* waits done or scheduled since the last fetch cycle
    waited,                   \* waits that preceded the last fetch cycle
    \* ---- historical reconciler: join_racecards_and_results --------------
    racecards,                \* racecards of the date, as fetched
    results,                  \* results of the date, as fetched
    joined_done,              \* join_racecards_and_results has returned
    joined_records,           \* the records it returned
    \* ---- historical reconciler: SchemaMapper ----------------------------
    race_runners,             \* joined records of one race: sp_dec, position
    mapped_done,              \* the race has been mapped
    mapped_records,           \* per runner: the derived fields
    \* ---- historical scheduler: processing of one target date ------------
    date_caller,              \* "fetch_yesterday" or "backfill" (loop body)
    date_racecards,           \* what get_racecards returns for the date
    date_results,             \* what get_race_results returns for the date
    mappable,                 \* horse ids whose records carry the required fields
    store_ok,                 \* horses for whose record upsert_odds returns True
    date_stage,               \* stage reached: see DateStages
    date_outcome,             \* "pending", "no_data", "failed" or "stored"
    date_persisted,           \* records of the date written to the store
    \* ---- HistoricalOddsClient.upsert_odds -------------------------------
    hist_rows,                \* the table: row i has racing_bet_data_id i
    persisted,                \* natural keys for which upsert_odds returned True
    last_op,                  \* "none", "skipped", "inserted", "updated", "failed"
    \* ---- HistoricalOddsScheduler (backfill tracker) ---------------------
    bf_today,                 \* date.today() as a day number
    bf_store,                 \* dates with at least one persisted row
    bf_no_data,               \* dates for which the API returns no runner record
    bf_state,                 \* self.state
    bf_state_file,            \* backfill_state.json: <<>> or <<state>>
    total_dates,              \* self.total_dates
    bf_pc,                    \* position in run_continuous
    bf_restarted,             \* no missing-dates scan since the last restart
    last_scan,                \* <<the get_missing_dates call of the step just taken>>
    last_check,               \* <<the is_backfill_complete call of the step just taken>>
    \* ---- entry points and shutdown signals ------------------------------
    sd_entry,                 \* "start_workers", "start" or "cron_live"
    sd_signal,                \* "none", "SIGINT" or "SIGTERM": the signal received
    sd_flag,                  \* the handler's flag was set (running = False, shutdown_flag.set())
    sd_self_running,          \* ConsolidatedScheduler.running
    sd_api_exiting,           \* the API server is returning from uvicorn.run
    sd_pc,                    \* "startup", "in_initial", "between", "in_cycle", "terminated", "killed"
    sd_batches,               \* batches written by the cycle in flight
    sd_cycles,                \* cycles started
    sd_started_after,         \* cycles started after the signal
    sd_preempted,             \* a cycle was abandoned in flight
    \* ---- HistoricalOddsFetcher provider requests ------------------------
    rq_fn,                    \* the fetcher function called
    rq_unit,                  \* the region or results page being requested
    rq_statuses,              \* per unit: the statuses the provider answered
    rq_outcome,               \* per unit: "pending", "data", "none", "error", "dropped", "lost"
    rq_errors,                \* stats['errors']
    rq_cooldowns,             \* number of 5 s waits taken
    \* ---- LiveOddsScheduler: races of the decision and of the next fetch -
    fd_variant,               \* "live_odds" or "odds_api"
    fd_off,                   \* race id -> time it is off, in units of 10 s
    fd_now,                   \* the clock, in units of 10 s
    fd_pc,                    \* "start", "decide", "sleep" or "done"
    fd_fed,                   \* ids of the races the last interval decision saw
    fd_nearest,               \* <<id of the race min_minutes came from>> or <<>>
    fd_interval,              \* the interval decided, in seconds
    fd_processed,             \* ids of the races of the last fetch cycle
    fd_cycles,                \* fetch cycles run
    \* ---- LiveOddsFetcher.fetch_all_live_odds: the worker pool -----------
    th_pc,                    \* worker -> "queued", "running", "raised", "loaded", "done"
    th_local,                 \* worker -> the value of stats['errors'] it loaded
    th_errors,                \* self.stats['errors']
    th_raised,                \* workers whose request raised
    th_collected,             \* workers whose future the main thread has processed
    th_odds_fetched,          \* self.stats['odds_fetched']
    th_in_update,             \* workers that were between load and store together
    \* ---- LiveOddsFetcher.parse_embedded_odds ----------------------------
    pe_embedded,              \* runner['odds']: the provider's entries for one runner
    pe_parsed,                \* parse_embedded_odds has run
    pe_odds_list,             \* the quotes it returned
    \* ---- live scheduler: the cycles run while one race approaches -------
    tr_driver,                \* "live_odds", "odds_api" (run_continuous) or "consolidated"
    tr_off,                   \* race id -> time it is off, in units of 10 s
    tr_now,                   \* the clock, in units of 10 s
    tr_pc,                    \* "start" or "loop"
    tr_next_check,            \* ConsolidatedScheduler.run: next_live_check
    tr_seen,                  \* proximity tiers of race r1 in which a cycle started
    tr_slow                   \* some cycle took longer than SafeCycleUnits

upsertVars == <<db, db_before, disable_change_detection, called, odds_data,
                race_ids_given, race_ids, read_failed, existing_odds_map,
                odds_to_upsert, classified, writes, ret, raised,
                cache_invalidated>>

intervalVars == <<variant, races, decided, interval, prev_races,
                  prev_interval, ticks>>

schedVars == <<driver, pc, consecutive_errors, cycles, failed_run, last_event,
               last_return, prev_failed, pending_sleeps, waited>>

liveVars == <<upsertVars, intervalVars, schedVars>>

joinVars == <<racecards, results, joined_done, joined_records>>

mapVars == <<race_runners, mapped_done, mapped_records>>

dateVars == <<date_caller, date_racecards, date_results, mappable, store_ok,
              date_stage, date_outcome, date_persisted>>

histUpsertVars == <<hist_rows, persisted, last_op>>

backfillVars == <<bf_today, bf_store, bf_no_data, bf_state, bf_state_file,
                  total_dates, bf_pc, bf_restarted, last_scan, last_check>>

histVars == <<joinVars, mapVars, dateVars, histUpsertVars, backfillVars>>

shutdownVars == <<sd_entry, sd_signal, sd_flag, sd_self_running, sd_api_exiting,
                  sd_pc, sd_batches, sd_cycles, sd_started_after, sd_preempted>>

requestVars == <<rq_fn, rq_unit, rq_statuses, rq_outcome, rq_errors,
                 rq_cooldowns>>

feedVars == <<fd_variant, fd_off, fd_now, fd_pc, fd_fed, fd_nearest,
              fd_interval, fd_processed, fd_cycles>>

threadVars == <<th_pc, th_local, th_errors, th_raised, th_collected,
                th_odds_fetched, th_in_update>>

parseVars == <<pe_embedded, pe_parsed, pe_odds_list>>

tierVars == <<tr_driver, tr_off, tr_now, tr_pc, tr_next_check, tr_seen, tr_slow>>

procVars == <<shutdownVars, requestVars, feedVars, threadVars, parseVars,
              tierVars>>

vars == <<liveVars, histVars, procVars>>

(***************************************************************************)
(* Persistence layer: ra_odds_live with a unique index on                  *)
(* (race_id, horse_id, bookmaker_id), which on_conflict presupposes.       *)
(***************************************************************************)
\* the tables the unique index admits: at most one row per key
Tables == [Keys -> {<<>>} \cup {<<v>> : v \in OddsValues}]
NoMap == [k \in Keys |-> <<>>]
ZeroStats == [inserted |-> 0, updated |-> 0, skipped |-> 0, errors |-> 0]
NoneClassified == [inserted |-> {}, updated |-> {}, skipped |-> {}]

NoDupKeys(recs) ==
    \A i, j \in DOMAIN recs : i # j => KeyOf(recs[i]) # KeyOf(recs[j])

\* Plain INSERT of one row (no conflict target that matches).
InsertRow(table, q) ==
    [table EXCEPT ![KeyOf(q)] = Append(@, q.odds_decimal)]

\* variant: the write is a plain insert that never resolves a conflict
UpsertRow_PlainInsert(table, q) == InsertRow(table, q)

\* INSERT ... ON CONFLICT (race_id,horse_id,bookmaker_id) DO UPDATE, one row.
UpsertRow(table, q) ==
    LET k == KeyOf(q) IN
    IF table[k] = <<>>
    THEN [table EXCEPT ![k] = <<q.odds_decimal>>]
    ELSE [table EXCEPT ![k] = [@ EXCEPT ![Len(@)] = q.odds_decimal]]

RECURSIVE UpsertRows(_, _)
UpsertRows(table, recs) ==
    IF recs = <<>> THEN table
    ELSE UpsertRows(UpsertRow(table, Head(recs)), Tail(recs))

RECURSIVE InsertRows(_, _)
InsertRows(table, recs) ==
    IF recs = <<>> THEN table
    ELSE InsertRows(InsertRow(table, Head(recs)), Tail(recs))

\* One statement may not touch the same conflict key twice, and NOT NULL
\* columns must be present.
StatementAccepted(recs) ==
    /\ \A i \in DOMAIN recs : HasIds(recs[i]) /\ recs[i].complete
    /\ NoDupKeys(recs)

\* upsert(records) without on_conflict resolves on the primary key `id';
\* the prepared records carry no id, so every record is inserted and the
\* unique index rejects the statement when a key already has a row.
RetryAccepted(table, recs) ==
    /\ StatementAccepted(recs)
    /\ \A i \in DOMAIN recs : table[KeyOf(recs[i])] = <<>>

(***************************************************************************)
(* LiveOddsSupabaseClient (live-odds-worker/live_odds_client.py)           *)
(***************************************************************************)
Last(s) == s[Len(s)]
Min(a, b) == IF a < b THEN a ELSE b

\* variant: the read is not scoped by race id
fetch_existing_odds_Unscoped(table, ids, ok) ==
    IF ids = {} \/ ~ok THEN NoMap
    ELSE [k \in Keys |-> IF table[k] # <<>> THEN <<Last(table[k])>> ELSE <<>>]

\* variant: a failed read answers like a successful one
fetch_existing_odds_for_races_FailureIgnored(table, ids, ok) ==
    IF ids = {} THEN NoMap
    ELSE [k \in Keys |->
            IF k[1] \in ids /\ table[k] # <<>> THEN <<Last(table[k])>> ELSE <<>>]

\* select race_id,horse_id,bookmaker_id,odds_decimal where race_id in
\* race_ids; {} when no race ids are given or when the query raises.
fetch_existing_odds_for_races(table, ids, ok) ==
    IF ids = {} \/ ~ok THEN NoMap
    ELSE [k \in Keys |->
            IF k[1] \in ids /\ table[k] # <<>> THEN <<Last(table[k])>> ELSE <<>>]

\* race ids extracted from the batch when the caller passes none
ExtractRaceIds(data) == {data[i].race_id : i \in DOMAIN data} \ {None}

\* variant: any existing row counts as unchanged
IsUnchanged_AnyExisting(existing, q) ==
    HasIds(q) /\ existing[KeyOf(q)] # <<>>

\* float(existing_decimal) == float(new_odds_decimal) on a record of the map
IsUnchanged(existing, q) ==
    /\ HasIds(q)
    /\ existing[KeyOf(q)] # <<>>
    /\ existing[KeyOf(q)][1] = q.odds_decimal

\* variant: the comparison is dropped, every identified quote is upserted
IsChangedOrNew_Always(existing, q) == HasIds(q)

IsChangedOrNew(existing, q) == HasIds(q) /\ ~IsUnchanged(existing, q)

FilterChanged(existing, data) ==
    SelectSeq(data, LAMBDA q : IsChangedOrNew(existing, q))

CountSkipped(existing, data) ==
    Len(SelectSeq(data, LAMBDA q : IsUnchanged(existing, q)))

\* bookmaker_groups: dict in order of first occurrence
RECURSIVE GroupOrder(_)
GroupOrder(s) ==
    IF s = <<>> THEN <<>>
    ELSE <<Head(s).bookmaker_id>> \o
         GroupOrder(SelectSeq(Tail(s),
                    LAMBDA q : q.bookmaker_id # Head(s).bookmaker_id))

\* records[i:i+batch_size] for i in range(0, len(records), batch_size)
RECURSIVE Chunks(_, _)
Chunks(s, n) ==
    IF s = <<>> THEN <<>>
    ELSE <<SubSeq(s, 1, Min(n, Len(s)))>> \o Chunks(SubSeq(s, n + 1, Len(s)), n)

RECURSIVE BatchesOfGroups(_, _)
BatchesOfGroups(order, s) ==
    IF order = <<>> THEN <<>>
    ELSE Chunks(SelectSeq(s, LAMBDA q : q.bookmaker_id = Head(order)), batch_size)
         \o BatchesOfGroups(Tail(order), s)

\* every batch the cycle hands to _process_bookmaker_batch's loop body
AllBatches(to_upsert) == BatchesOfGroups(GroupOrder(to_upsert), to_upsert)

\* _prepare_live_record: <<prepared>>, or <<>> (None) when a required field
\* is missing
prepare_live_record(q) == IF HasIds(q) /\ q.complete THEN <<q>> ELSE <<>>

RECURSIVE Prepared(_)
Prepared(batch) ==
    IF batch = <<>> THEN <<>>
    ELSE prepare_live_record(Head(batch)) \o Prepared(Tail(batch))

\* variant: insert/update decided the wrong way round
IsNewKey_Inverted(existing, q) == existing[KeyOf(q)] # <<>>

\* `key in existing_odds_map' decides update vs insert
IsNewKey(existing, q) == existing[KeyOf(q)] = <<>>

WriteOutcomes == {"ok", "retry_ok", "fail"}

\* variant: a failed first attempt is not retried
upsert_batch_NoRetry(table, records, out) ==
    IF out = "ok" /\ StatementAccepted(records)
    THEN [table |-> UpsertRows(table, records), attempts |-> 1,
          result |-> "ok", errors |-> 0]
    ELSE [table |-> table, attempts |-> 1,
          result |-> "fail", errors |-> Len(records)]

\* _upsert_batch: first attempt with on_conflict, one retry without it,
\* then errors += len(records) and re-raise.
\*   out = "ok"        both statements would reach a healthy store
\*   out = "retry_ok"  the first statement fails, the retry reaches the store
\*   out = "fail"      both statements fail
upsert_batch(table, records, out) ==
    IF out = "ok" /\ StatementAccepted(records)
    THEN [table |-> UpsertRows(table, records), attempts |-> 1,
          result |-> "ok", errors |-> 0]
    ELSE IF out \in {"ok", "retry_ok"} /\ RetryAccepted(table, records)
         THEN [table |-> InsertRows(table, records), attempts |-> 2,
               result |-> "retry_ok", errors |-> 0]
         ELSE [table |-> table, attempts |-> 2,
               result |-> "fail", errors |-> Len(records)]

\* body of the batch loop of _process_bookmaker_batch, over all bookmakers
RECURSIVE ProcessBatches(_, _, _, _)
ProcessBatches(bs, outs, existing, acc) ==
    IF bs = <<>> THEN acc
    ELSE
      LET batch == Head(bs)
          prepared == Prepared(batch)
          new == {i \in DOMAIN prepared : IsNewKey(existing, prepared[i])}
          ins == Cardinality(new)
          upd == Len(prepared) - ins
          w == upsert_batch(acc.table, prepared, Head(outs))
          failed == prepared # <<>> /\ w.result = "fail"
          st == [acc.stats EXCEPT
                   !.inserted = @ + ins,
                   !.updated = @ + upd,
                   !.errors = @ + (IF failed THEN w.errors + Len(batch) ELSE 0)]
      IN ProcessBatches(Tail(bs), Tail(outs), existing,
            [table |-> IF prepared = <<>> THEN acc.table ELSE w.table,
             stats |-> st,
             classified |-> [acc.classified EXCEPT
                 !.inserted = @ \cup {prepared[i] : i \in new},
                 !.updated = @ \cup {prepared[i] : i \in DOMAIN prepared \ new}],
             writes |-> IF prepared = <<>> THEN acc.writes
                        ELSE Append(acc.writes,
                               [records |-> prepared, attempts |-> w.attempts,
                                result |-> w.result])])

(***************************************************************************)
(* update_live_odds(odds_data, race_ids)                                   *)
(***************************************************************************)
\* variant: the bypass still reads the existing odds and drops the quotes
\* that equal them
update_live_odds_bypass_Detects(data, out) ==
    LET existing == fetch_existing_odds_for_races(db, ExtractRaceIds(data), TRUE)
        to_upsert == FilterChanged(existing, data)
        accepted == out = "ok" /\ StatementAccepted(to_upsert)
    IN
    /\ disable_change_detection
    /\ called' = TRUE
    /\ db_before' = db
    /\ odds_data' = data
    /\ race_ids_given' = FALSE
    /\ race_ids' = ExtractRaceIds(data)
    /\ read_failed' = FALSE
    /\ existing_odds_map' = existing
    /\ odds_to_upsert' = to_upsert
    /\ classified' = [NoneClassified EXCEPT !.skipped =
                         {q \in SeqRange(data) : IsUnchanged(existing, q)}]
    /\ db' = IF accepted THEN UpsertRows(db, to_upsert) ELSE db
    /\ writes' = <<[records |-> to_upsert, attempts |-> 1,
                    result |-> IF accepted THEN "ok" ELSE "fail"]>>
    /\ ret' = IF accepted
              THEN [ZeroStats EXCEPT !.updated = Len(to_upsert),
                                     !.skipped = CountSkipped(existing, data)]
              ELSE ZeroStats
    /\ raised' = ~accepted
    /\ cache_invalidated' = FALSE
    /\ UNCHANGED disable_change_detection

\* DISABLE_CHANGE_DETECTION: one raw upsert of the whole batch, no retry
update_live_odds_bypass(data, out) ==
    /\ disable_change_detection
    /\ called' = TRUE
    /\ db_before' = db
    /\ odds_data' = data
    /\ race_ids_given' = FALSE
    /\ race_ids' = {}
    /\ read_failed' = FALSE
    /\ existing_odds_map' = NoMap
    /\ odds_to_upsert' = data
    /\ classified' = NoneClassified
    /\ IF out = "ok" /\ StatementAccepted(data)
       THEN /\ db' = UpsertRows(db, data)
            /\ writes' = <<[records |-> data, attempts |-> 1, result |-> "ok"]>>
            /\ ret' = [ZeroStats EXCEPT !.updated = Len(data)]
            /\ raised' = FALSE
       ELSE /\ db' = db
            /\ writes' = <<[records |-> data, attempts |-> 1, result |-> "fail"]>>
            /\ ret' = ZeroStats
            /\ raised' = TRUE
    /\ cache_invalidated' = FALSE
    /\ UNCHANGED disable_change_detection

\* `if self.stats['updated'] > 0 and CACHE_INVALIDATION_AVAILABLE:
\* invalidate_races_cache()`; the key is deleted when the cache client is
\* importable, connected and its delete does not raise
invalidate_races_cache(stats, cache_enabled) ==
    stats.updated > 0 /\ cache_enabled

update_live_odds_detect(data, ids_arg, read_ok, outs) ==
    LET ids == IF ids_arg.given THEN ids_arg.ids ELSE ExtractRaceIds(data)
        existing == fetch_existing_odds_for_races(db, ids, read_ok)
        to_upsert == FilterChanged(existing, data)
        skipped_count == CountSkipped(existing, data)
        done == ProcessBatches(AllBatches(to_upsert), outs, existing,
                    [table |-> db,
                     stats |-> [ZeroStats EXCEPT !.skipped = skipped_count],
                     classified |-> [NoneClassified EXCEPT !.skipped =
                         {q \in SeqRange(data) : IsUnchanged(existing, q)}],
                     writes |-> <<>>])
    IN
    /\ ~disable_change_detection
    /\ called' = TRUE
    /\ db_before' = db
    /\ odds_data' = data
    /\ race_ids_given' = ids_arg.given
    /\ race_ids' = ids
    /\ read_failed' = (ids # {} /\ ~read_ok)
    /\ existing_odds_map' = existing
    /\ odds_to_upsert' = to_upsert
    /\ db' = done.table
    /\ classified' = done.classified
    /\ writes' = done.writes
    /\ ret' = done.stats
    /\ raised' = FALSE
    /\ \E cache_enabled \in BOOLEAN :
          cache_invalidated' = invalidate_races_cache(done.stats, cache_enabled)
    /\ UNCHANGED disable_change_detection

update_live_odds ==
    /\ ~called
    /\ \E data \in BatchDomain :
         \/ \E out \in {"ok", "fail"} : update_live_odds_bypass(data, out)
         \/ \E ids_arg \in RaceIdsArgs, read_ok \in BOOLEAN,
               outs \in [1..MaxBatchLen -> WriteOutcomes] :
               update_live_odds_detect(data, ids_arg, read_ok, outs)

InitUpsertIdle ==
    /\ db = [k \in Keys |-> <<>>]
    /\ db_before = db
    /\ disable_change_detection = FALSE
    /\ called = FALSE
    /\ odds_data = <<>>
    /\ race_ids_given = FALSE
    /\ race_ids = {}
    /\ read_failed = FALSE
    /\ existing_odds_map = NoMap
    /\ odds_to_upsert = <<>>
    /\ classified = NoneClassified
    /\ writes = <<>>
    /\ ret = ZeroStats
    /\ raised = FALSE
    /\ cache_invalidated = FALSE

InitUpsert ==
    /\ db \in Tables
    /\ db_before = db
    /\ disable_change_detection \in BOOLEAN
    /\ called = FALSE
    /\ odds_data = <<>>
    /\ race_ids_given = FALSE
    /\ race_ids = {}
    /\ read_failed = FALSE
    /\ existing_odds_map = NoMap
    /\ odds_to_upsert = <<>>
    /\ classified = NoneClassified
    /\ writes = <<>>
    /\ ret = ZeroStats
    /\ raised = FALSE
    /\ cache_invalidated = FALSE

(***************************************************************************)
(* LiveOddsScheduler.get_optimal_interval (live_odds/cron_live.py and      *)
(* odds_api/live_odds/cron_live.py)                                        *)
(***************************************************************************)
INTERVAL_IMMINENT == 10
INTERVAL_SOON == 60
INTERVAL_UPCOMING == 300
INTERVAL_CHECK == 900
THRESHOLD_IMMINENT == 5
THRESHOLD_SOON == 30
THRESHOLD_UPCOMING == 120
LIVE_ODDS_GRACE == 10
ODDS_API_GRACE == 0

\* bounds of the interval model
MaxRaces == 2
MaxTicks == 3

\* minutes until start, around every threshold of both variants
MinuteValues == (0 - 12 .. 8) \cup (28..32) \cup (118..123)

\* off_dt: "ok" (parses, `minutes' away), "missing" (no off_dt), "bad"
\* (calculate_minutes_until_race fails and returns float('inf'))
Race(o, m) == [off_dt |-> o, minutes |-> m]
RaceDomain == {Race("ok", m) : m \in MinuteValues}
                 \cup {Race("missing", 0), Race("bad", 0)}
RaceLists == UNION {[1..n -> RaceDomain] : n \in 0..MaxRaces}

\* `if minutes_until < -10' (live_odds) / `if minutes_until < 0' (odds_api)
GracePeriod(v) == IF v = "live_odds" THEN LIVE_ODDS_GRACE ELSE ODDS_API_GRACE

\* the loop over races: <<>> stands for min_minutes = inf, nearest_race = None.
\* A "bad" off_dt yields inf, which is neither < -grace nor < min_minutes.
\* variant: races that started before the grace period are not skipped
RECURSIVE ScanNearest_NoGrace(_, _, _)
ScanNearest_NoGrace(rs, grace, min_minutes) ==
    IF rs = <<>> THEN min_minutes
    ELSE LET r == Head(rs) IN
         IF r.off_dt # "ok" THEN ScanNearest_NoGrace(Tail(rs), grace, min_minutes)
         ELSE IF min_minutes = <<>> \/ r.minutes < min_minutes[1]
              THEN ScanNearest_NoGrace(Tail(rs), grace, <<r.minutes>>)
         ELSE ScanNearest_NoGrace(Tail(rs), grace, min_minutes)

RECURSIVE ScanNearest(_, _, _)
ScanNearest(rs, grace, min_minutes) ==
    IF rs = <<>> THEN min_minutes
    ELSE LET r == Head(rs) IN
         IF r.off_dt # "ok" THEN ScanNearest(Tail(rs), grace, min_minutes)
         ELSE IF r.minutes < 0 - grace
              THEN ScanNearest(Tail(rs), grace, min_minutes)
         ELSE IF min_minutes = <<>> \/ r.minutes < min_minutes[1]
              THEN ScanNearest(Tail(rs), grace, <<r.minutes>>)
         ELSE ScanNearest(Tail(rs), grace, min_minutes)

\* variant: thresholds compared with < instead of <=
IntervalFor_StrictThresholds(m) ==
    IF m < THRESHOLD_IMMINENT THEN INTERVAL_IMMINENT
    ELSE IF m < THRESHOLD_SOON THEN INTERVAL_SOON
    ELSE IF m < THRESHOLD_UPCOMING THEN INTERVAL_UPCOMING
    ELSE INTERVAL_CHECK

\* variant: the SOON and UPCOMING tiers return each other's interval
IntervalFor_TiersSwapped(m) ==
    IF m <= THRESHOLD_IMMINENT THEN INTERVAL_IMMINENT
    ELSE IF m <= THRESHOLD_SOON THEN INTERVAL_UPCOMING
    ELSE IF m <= THRESHOLD_UPCOMING THEN INTERVAL_SOON
    ELSE INTERVAL_CHECK

\* variant: the SOON tier returns the default check interval
IntervalFor_SoonUsesCheck(m) ==
    IF m <= THRESHOLD_IMMINENT THEN INTERVAL_IMMINENT
    ELSE IF m <= THRESHOLD_SOON THEN INTERVAL_CHECK
    ELSE IF m <= THRESHOLD_UPCOMING THEN INTERVAL_UPCOMING
    ELSE INTERVAL_CHECK

\* the if/elif chain on min_minutes
IntervalFor(m) ==
    IF m <= THRESHOLD_IMMINENT THEN INTERVAL_IMMINENT
    ELSE IF m <= THRESHOLD_SOON THEN INTERVAL_SOON
    ELSE IF m <= THRESHOLD_UPCOMING THEN INTERVAL_UPCOMING
    ELSE INTERVAL_CHECK

get_optimal_interval(rs, v) ==
    IF rs = <<>> THEN INTERVAL_CHECK
    ELSE LET min_minutes == ScanNearest(rs, GracePeriod(v), <<>>) IN
         IF min_minutes = <<>> THEN INTERVAL_CHECK
         ELSE IntervalFor(min_minutes[1])

\* the same races one minute later
Later(rs) == [i \in DOMAIN rs |-> [rs[i] EXCEPT !.minutes =
                 IF rs[i].off_dt = "ok" THEN @ - 1 ELSE @]]

\* first interval decision, on the race list the provider returned
Decide ==
    /\ ~decided
    /\ decided' = TRUE
    /\ interval' = get_optimal_interval(races, variant)
    /\ UNCHANGED <<variant, races, prev_races, prev_interval, ticks>>

\* a minute passes and the interval is decided again on the same races
Tick ==
    /\ decided
    /\ ticks < MaxTicks
    /\ ticks' = ticks + 1
    /\ races' = Later(races)
    /\ prev_races' = races
    /\ prev_interval' = interval
    /\ interval' = get_optimal_interval(Later(races), variant)
    /\ UNCHANGED <<variant, decided>>

InitIntervalIdle ==
    /\ variant = "live_odds"
    /\ races = <<>>
    /\ decided = FALSE
    /\ interval = INTERVAL_CHECK
    /\ prev_races = <<>>
    /\ prev_interval = INTERVAL_CHECK
    /\ ticks = 0

InitInterval ==
    /\ variant \in {"live_odds", "odds_api"}
    /\ races \in RaceLists
    /\ decided = FALSE
    /\ interval = INTERVAL_CHECK
    /\ prev_races = <<>>
    /\ prev_interval = INTERVAL_CHECK
    /\ ticks = 0

(***************************************************************************)
(* LiveOddsScheduler.run_fetch_cycle / run_continuous                      *)
(***************************************************************************)
max_consecutive_errors == 5
BACKOFF_SECONDS == 60
ERROR_INTERVAL == 300
MaxCycles == 7
MaxPendingSleeps == 2

\* what a fetch cycle can meet:
\*   "ok"          races found, odds fetched and stored
\*   "no_races"    get_upcoming_races returned []
\*   "api_error"   get_upcoming_races failed; it catches and returns []
\*   "store_error" fetch_and_store_odds failed; it catches and returns stats
\*   "exception"   an exception reaches run_fetch_cycle's own handler
CycleEvents == {"ok", "no_races", "api_error", "store_error", "exception"}

\* return value of run_fetch_cycle
FetchCycleReturn(e) == IF e = "exception" THEN "False" ELSE "True"

\* self.consecutive_errors after run_fetch_cycle
ErrorsAfterCycle(errors, e) ==
    IF e = "exception" THEN errors + 1
    ELSE IF e \in {"no_races", "api_error"} THEN errors
    ELSE 0

\* `if self.consecutive_errors >= self.max_consecutive_errors: break'
ShouldStop(errors) == errors >= max_consecutive_errors

Sleep(kind, secs) == [kind |-> kind, secs |-> secs]

\* race lists get_upcoming_races hands to the interval decision in the loop
LoopRaceInputs == {<<>>, <<Race("ok", 3)>>}

\* run_fetch_cycle, as called from run_continuous
run_fetch_cycle(e) ==
    /\ cycles' = cycles + 1
    /\ consecutive_errors' = ErrorsAfterCycle(consecutive_errors, e)
    /\ failed_run' = IF FetchCycleReturn(e) = "False" THEN failed_run + 1 ELSE 0
    /\ last_event' = e
    /\ last_return' = FetchCycleReturn(e)
    /\ prev_failed' = (last_return = "False")

\* variant: the loop's interval sleep is taken before the initial fetch
InitialFetch_SleepFirst ==
    /\ driver = "run_continuous"
    /\ pc = "start"
    /\ \E e \in CycleEvents : run_fetch_cycle(e)
    /\ waited' = <<Sleep("interval", INTERVAL_CHECK)>>
    /\ pending_sleeps' = <<>>
    /\ pc' = "loop"
    /\ UNCHANGED driver

\* the immediate initial fetch of run_continuous
InitialFetch ==
    /\ driver = "run_continuous"
    /\ pc = "start"
    /\ \E e \in CycleEvents : run_fetch_cycle(e)
    /\ waited' = <<>>
    /\ pending_sleeps' = <<>>
    /\ pc' = "loop"
    /\ UNCHANGED driver

\* loop iteration that ends at the stop test
LoopStop ==
    /\ driver = "run_continuous"
    /\ pc = "loop"
    /\ ShouldStop(consecutive_errors)
    /\ pc' = "halted"
    /\ UNCHANGED <<driver, consecutive_errors, cycles, failed_run, last_event,
                   last_return, prev_failed, pending_sleeps, waited>>

\* loop iteration that sleeps the computed interval and runs a fetch cycle
LoopFetch ==
    /\ driver = "run_continuous"
    /\ pc = "loop"
    /\ ~ShouldStop(consecutive_errors)
    /\ cycles < MaxCycles
    /\ \E rs \in LoopRaceInputs, e \in CycleEvents :
          /\ waited' = Append(pending_sleeps,
                          Sleep("interval", get_optimal_interval(rs, "live_odds")))
          /\ run_fetch_cycle(e)
    /\ pending_sleeps' = <<>>
    /\ pc' = "loop"
    /\ UNCHANGED driver

\* loop iteration in which an exception reaches the loop's own handler,
\* before or after the interval sleep: count it and sleep 60 seconds
LoopError ==
    /\ driver = "run_continuous"
    /\ pc = "loop"
    /\ ~ShouldStop(consecutive_errors)
    /\ Len(pending_sleeps) < MaxPendingSleeps
    /\ \E rs \in LoopRaceInputs, slept \in BOOLEAN :
          pending_sleeps' =
             (IF slept
              THEN Append(pending_sleeps,
                      Sleep("interval", get_optimal_interval(rs, "live_odds")))
              ELSE pending_sleeps) \o <<Sleep("backoff", BACKOFF_SECONDS)>>
    /\ consecutive_errors' = consecutive_errors + 1
    /\ pc' = "loop"
    /\ UNCHANGED <<driver, cycles, failed_run, last_event, last_return,
                   prev_failed, waited>>

\* ConsolidatedScheduler.run_live_odds, from setup_schedules (the initial
\* fetch) or from the loop of run() once next_live_check is due: the fetch
\* cycle's result is dropped and consecutive_errors is never read.  The
\* loop schedules the next check by the returned interval; setup_schedules
\* drops it, and run() then sets next_live_check = datetime.now()
ConsolidatedLiveOdds ==
    /\ driver = "consolidated"
    /\ pc \in {"start", "loop"}
    /\ cycles < MaxCycles
    /\ \E rs \in LoopRaceInputs, e \in CycleEvents :
          /\ run_fetch_cycle(e)
          /\ pending_sleeps' =
                IF pc = "start" THEN <<>>
                ELSE <<Sleep("interval", get_optimal_interval(rs, "odds_api"))>>
    /\ waited' = pending_sleeps
    /\ pc' = "loop"
    /\ UNCHANGED driver

\* run_live_odds fails outside the fetch cycle (building LiveOddsScheduler,
\* saving the status): it returns the default 300 seconds, which the loop
\* waits and setup_schedules drops
ConsolidatedError ==
    /\ driver = "consolidated"
    /\ pc \in {"start", "loop"}
    /\ Len(pending_sleeps) < MaxPendingSleeps
    /\ pending_sleeps' =
          IF pc = "start" THEN pending_sleeps
          ELSE Append(pending_sleeps, Sleep("default", ERROR_INTERVAL))
    /\ pc' = "loop"
    /\ UNCHANGED <<driver, consecutive_errors, cycles, failed_run, last_event,
                   last_return, prev_failed, waited>>

InitSchedIdle ==
    /\ driver = "run_continuous"
    /\ pc = "start"
    /\ consecutive_errors = 0
    /\ cycles = 0
    /\ failed_run = 0
    /\ last_event = "none"
    /\ last_return = "none"
    /\ prev_failed = FALSE
    /\ pending_sleeps = <<>>
    /\ waited = <<>>

InitSched ==
    /\ driver \in {"run_continuous", "consolidated"}
    /\ pc = "start"
    /\ consecutive_errors = 0
    /\ cycles = 0
    /\ failed_run = 0
    /\ last_event = "none"
    /\ last_return = "none"
    /\ prev_failed = FALSE
    /\ pending_sleeps = <<>>
    /\ waited = <<>>

(***************************************************************************)
(* HistoricalOddsFetcher.join_racecards_and_results                        *)
(***************************************************************************)
MaxRacecards == 2
MaxRunners == 2

JoinRaceIds == {"r1", "r2"}
JoinHorseIds == {"h1", "h2"}

\* sequences over S of length at most n
SeqsUpTo(S, n) == UNION {[1..m -> S] : m \in 0..n}

\* ids are identities: no id occurs twice in a sequence (None may)
DistinctIds(ids) ==
    \A i, j \in DOMAIN ids : (i # j /\ ids[i] # None) => ids[i] # ids[j]

\* a racecard or a result: a race id and its runners' horse ids
RaceEntry(rid, runners) == [race_id |-> rid, runners |-> runners]

\* racecards may lack a race_id, and their runners a horse_id
RacecardDomain ==
    {RaceEntry(rid, rs) : rid \in JoinRaceIds \cup {None},
        rs \in {x \in SeqsUpTo(JoinHorseIds \cup {None}, MaxRunners) :
                    DistinctIds(x)}}
RacecardLists ==
    {cs \in SeqsUpTo(RacecardDomain, MaxRacecards) :
        DistinctIds([i \in DOMAIN cs |-> cs[i].race_id])}

\* results carry race_id and horse_id on every entry
ResultDomain ==
    {RaceEntry(rid, rs) : rid \in JoinRaceIds,
        rs \in {x \in SeqsUpTo(JoinHorseIds, MaxRunners) : DistinctIds(x)}}
ResultLists ==
    {rs \in SeqsUpTo(ResultDomain, MaxRacecards) :
        DistinctIds([i \in DOMAIN rs |-> rs[i].race_id])}

\* results_by_race.get(race_id): the last entry of that race, <<>> if none
RECURSIVE results_by_race(_, _)
results_by_race(rs, rid) ==
    IF rs = <<>> THEN <<>>
    ELSE IF rs[Len(rs)].race_id = rid THEN <<rs[Len(rs)]>>
    ELSE results_by_race(SubSeq(rs, 1, Len(rs) - 1), rid)

\* result_runners_by_horse.get(horse_id) finds a runner
HasResultRunner(result, hid) ==
    \E j \in DOMAIN result.runners : result.runners[j] = hid

JoinedRecord(rid, hid) == [race_id |-> rid, horse_id |-> hid]

\* variant: a runner of a matched race is joined without a result runner
RECURSIVE JoinRunners_AnyRunner(_, _, _)
JoinRunners_AnyRunner(rid, runners, result) ==
    IF runners = <<>> THEN <<>>
    ELSE LET horse_id == Head(runners)
             rest == JoinRunners_AnyRunner(rid, Tail(runners), result)
         IN IF horse_id = None THEN rest
            ELSE <<JoinedRecord(rid, horse_id)>> \o rest

\* the loop over racecard.get('runners')
RECURSIVE JoinRunners(_, _, _)
JoinRunners(rid, runners, result) ==
    IF runners = <<>> THEN <<>>
    ELSE LET horse_id == Head(runners)
             rest == JoinRunners(rid, Tail(runners), result)
         IN IF horse_id = None THEN rest
            ELSE IF ~HasResultRunner(result, horse_id) THEN rest
            ELSE <<JoinedRecord(rid, horse_id)>> \o rest

\* the loop over racecards
RECURSIVE join_racecards_and_results(_, _)
join_racecards_and_results(cards, rs) ==
    IF cards = <<>> THEN <<>>
    ELSE LET racecard == Head(cards)
             rest == join_racecards_and_results(Tail(cards), rs)
             matching_result == results_by_race(rs, racecard.race_id)
         IN IF racecard.race_id = None THEN rest
            ELSE IF matching_result = <<>> THEN rest
            ELSE JoinRunners(racecard.race_id, racecard.runners,
                             matching_result[1]) \o rest

\* map_batch: races[race_id], the records of the batch that carry the race id;
\* passed as all_runners to map_combined_to_rb_odds for each of them
RunnersOfRace(combined_records, race_id) ==
    SelectSeq(combined_records, LAMBDA r : r.race_id = race_id)

Join ==
    /\ ~joined_done
    /\ joined_done' = TRUE
    /\ joined_records' = join_racecards_and_results(racecards, results)
    /\ UNCHANGED <<racecards, results>>

InitJoinIdle ==
    /\ racecards = <<>>
    /\ results = <<>>
    /\ joined_done = FALSE
    /\ joined_records = <<>>

InitJoin ==
    /\ racecards \in RacecardLists
    /\ results \in ResultLists
    /\ joined_done = FALSE
    /\ joined_records = <<>>

(***************************************************************************)
(* SchemaMapper (_legacy_monolithic/historical_odds/schema_mapping.py):    *)
(* favourite position and returns.  Prices and returns are in thousandths. *)
(***************************************************************************)
MaxField == 17
UNIT == 1000

\* sp_dec as the results give it: a decimal string, an unparseable string,
\* or nothing.  Num(2500) stands for "2.5".
Num(m) == [kind |-> "num", milli |-> m]
BadText == [kind |-> "text", milli |-> 0]
Missing == [kind |-> "none", milli |-> 0]

\* position: a digit string ("1", "2", ...), a code such as "PU", or nothing
Pos(n) == [kind |-> "digits", n |-> n]
PosCode == [kind |-> "text", n |-> 0]
PosMissing == [kind |-> "none", n |-> 0]

Runner(sp, pos) == [sp_dec |-> sp, position |-> pos]

\* starting prices of the i-th runner, by pattern
ScenarioPrices == <<2000, 3000, 4000, 6000, 8000, 10000>>
SpOf(pattern, i) ==
    CASE pattern = "rising" ->
            IF i <= Len(ScenarioPrices) THEN Num(ScenarioPrices[i])
            ELSE Num((i + 4) * UNIT)
      [] pattern = "paired" -> Num(2 * UNIT * ((i + 1) \div 2))
      [] pattern = "halves" -> Num(UNIT + 500 * i)
      [] pattern = "falling" -> Num((MaxField + 3 - i) * UNIT)
      [] OTHER -> IF i = 1 THEN Missing
                  ELSE IF i = 2 THEN BadText
                  ELSE Num(i * UNIT)
SpPatterns == {"rising", "paired", "halves", "falling", "gaps"}

\* finishing positions of the i-th of n runners, by pattern
PosOf(pattern, i, n) ==
    CASE pattern = "order" -> Pos(i)
      [] pattern = "reverse" -> Pos(n + 1 - i)
      [] OTHER -> IF i = 1 THEN PosCode
                  ELSE IF i = 2 THEN PosMissing
                  ELSE Pos(i - 2)
PosPatterns == {"order", "reverse", "codes"}

RaceFields ==
    {[i \in 1..n |-> Runner(SpOf(sp, i), PosOf(pos, i, n))] :
        n \in 0..MaxField, sp \in SpPatterns, pos \in PosPatterns}

\* float(sp_dec): <<value>>, or <<>> when it raises ValueError
ParseFloat(sp) == IF sp.kind = "num" THEN <<sp.milli>> ELSE <<>>

\* the valid SPs of the race, as a set (sorted(set(sps)))
ValidSps(all_runners) ==
    {all_runners[i].sp_dec.milli : i \in {j \in DOMAIN all_runners :
        all_runners[j].sp_dec.kind = "num"}}

\* variant: the position in the unsorted, undeduplicated list of runners
calculate_sp_favorite_position_ByIndex(all_runners, current_sp_dec) ==
    IF current_sp_dec.kind = "none" \/ all_runners = <<>> THEN <<>>
    ELSE IF ParseFloat(current_sp_dec) = <<>> THEN <<>>
    ELSE <<CHOOSE i \in DOMAIN all_runners :
              /\ all_runners[i].sp_dec = current_sp_dec
              /\ \A j \in 1..(i - 1) : all_runners[j].sp_dec # current_sp_dec>>

\* 1-based index of current_sp in sorted(set(sps))
calculate_sp_favorite_position(all_runners, current_sp_dec) ==
    IF current_sp_dec.kind = "none" \/ all_runners = <<>> THEN <<>>
    ELSE IF ParseFloat(current_sp_dec) = <<>> THEN <<>>
    ELSE LET current_sp == ParseFloat(current_sp_dec)[1]
             sps == ValidSps(all_runners)
         IN IF current_sp \in sps
            THEN <<Cardinality({x \in sps : x < current_sp}) + 1>>
            ELSE <<>>

calculate_sp_win_return(sp_dec, position) ==
    IF sp_dec.kind = "none" \/ position.kind = "none" THEN <<>>
    ELSE IF ParseFloat(sp_dec) = <<>> THEN <<>>
    ELSE IF position.kind = "digits" /\ position.n = 1
         THEN <<ParseFloat(sp_dec)[1]>>
         ELSE <<0>>

\* variant: the 8-11 tier pays four places
PlaceTerms_FourPlacesAtEight(runners_count) ==
    IF runners_count >= 16 THEN <<[num |-> 1, den |-> 4, places |-> 4]>>
    ELSE IF runners_count >= 12 THEN <<[num |-> 1, den |-> 4, places |-> 3]>>
    ELSE IF runners_count >= 8 THEN <<[num |-> 1, den |-> 5, places |-> 4]>>
    ELSE IF runners_count >= 5 THEN <<[num |-> 1, den |-> 4, places |-> 2]>>
    ELSE <<>>

\* place_fraction (num/den) and place_positions, by runners_count
PlaceTerms(runners_count) ==
    IF runners_count >= 16 THEN <<[num |-> 1, den |-> 4, places |-> 4]>>
    ELSE IF runners_count >= 12 THEN <<[num |-> 1, den |-> 4, places |-> 3]>>
    ELSE IF runners_count >= 8 THEN <<[num |-> 1, den |-> 5, places |-> 3]>>
    ELSE IF runners_count >= 5 THEN <<[num |-> 1, den |-> 4, places |-> 2]>>
    ELSE <<>>

\* 1 + ((sp - 1) * place_fraction)
PlacePart(sp, terms) == UNIT + ((sp - UNIT) * terms.num) \div terms.den

\* variant: a winner is paid the win part only
calculate_ew_return_WinOnly(sp_dec, position, runners_count) ==
    IF sp_dec.kind = "none" \/ position.kind = "none" THEN <<>>
    ELSE IF ParseFloat(sp_dec) = <<>> THEN <<>>
    ELSE IF position.kind # "digits" THEN <<>>
    ELSE IF PlaceTerms(runners_count) = <<>> THEN <<>>
    ELSE LET sp == ParseFloat(sp_dec)[1]
             terms == PlaceTerms(runners_count)[1]
         IN IF position.n = 1 THEN <<sp>>
            ELSE IF position.n <= terms.places THEN <<PlacePart(sp, terms)>>
            ELSE <<0>>

calculate_ew_return(sp_dec, position, runners_count) ==
    IF sp_dec.kind = "none" \/ position.kind = "none" THEN <<>>
    ELSE IF ParseFloat(sp_dec) = <<>> THEN <<>>
    ELSE IF position.kind # "digits" THEN <<>>
    ELSE IF PlaceTerms(runners_count) = <<>> THEN <<>>
    ELSE LET sp == ParseFloat(sp_dec)[1]
             terms == PlaceTerms(runners_count)[1]
         IN IF position.n = 1 THEN <<sp + PlacePart(sp, terms)>>
            ELSE IF position.n <= terms.places THEN <<PlacePart(sp, terms)>>
            ELSE <<0>>

calculate_place_return(sp_dec, position, runners_count) ==
    IF sp_dec.kind = "none" \/ position.kind = "none" THEN <<>>
    ELSE IF ParseFloat(sp_dec) = <<>> THEN <<>>
    ELSE IF position.kind # "digits" THEN <<>>
    ELSE IF PlaceTerms(runners_count) = <<>> THEN <<>>
    ELSE LET sp == ParseFloat(sp_dec)[1]
             terms == PlaceTerms(runners_count)[1]
         IN IF position.n <= terms.places THEN <<PlacePart(sp, terms)>>
            ELSE <<0>>

\* the derived fields of map_combined_to_rb_odds
map_combined_to_rb_odds(combined_data, all_runners) ==
    LET runners_count == Len(all_runners)
        sp_dec == combined_data.sp_dec
        position == combined_data.position
    IN [runners_count |-> runners_count,
        sp_favorite_position |->
            calculate_sp_favorite_position(all_runners, sp_dec),
        sp_win_return |-> calculate_sp_win_return(sp_dec, position),
        ew_return |-> calculate_ew_return(sp_dec, position, runners_count),
        place_return |-> calculate_place_return(sp_dec, position, runners_count)]

\* map_batch on the joined records of one race
MapRace ==
    /\ ~mapped_done
    /\ mapped_done' = TRUE
    /\ mapped_records' = [i \in DOMAIN race_runners |->
                             map_combined_to_rb_odds(race_runners[i], race_runners)]
    /\ UNCHANGED race_runners

InitMapIdle ==
    /\ race_runners = <<>>
    /\ mapped_done = FALSE
    /\ mapped_records = <<>>

InitMap ==
    /\ race_runners \in RaceFields
    /\ mapped_done = FALSE
    /\ mapped_records = <<>>

(***************************************************************************)
(* HistoricalOddsScheduler.fetch_yesterday and the per-date body of        *)
(* run_aggressive_backfill, over fetch_complete_date_data                  *)
(***************************************************************************)
DateStages == {"pending", "racecards_fetched", "results_fetched", "joined",
               "mapped", "persisted"}

DateRacecards == {cs \in RacecardLists : Len(cs) <= 1}
DateResults == {rs \in ResultLists : Len(rs) <= 1}

\* fetch_complete_date_data: [] when racecards or results are empty
fetch_complete_date_data(cards, rs) ==
    IF cards = <<>> THEN <<>>
    ELSE IF rs = <<>> THEN <<>>
    ELSE join_racecards_and_results(cards, rs)

\* the stage at which fetch_complete_date_data stopped
FetchStage(cards, rs) ==
    IF cards = <<>> THEN "pending"
    ELSE IF rs = <<>> THEN "racecards_fetched"
    ELSE "results_fetched"

\* map_batch keeps the records whose mapping has every required field
map_batch(records, ok_horses) ==
    SelectSeq(records, LAMBDA r : r.horse_id \in ok_horses)

\* the loop over mapped_records calling upsert_odds: one write per record, a
\* failed one is logged and the loop goes on
StoreAll(mapped, ok) == {mapped[i] : i \in {j \in DOMAIN mapped : mapped[j].horse_id \in ok}}

\* fetch_yesterday: True without storing when nothing was fetched, False
\* when nothing was mapped (run_daily_job then logs the failure)
YesterdayOutcome(runner_records, mapped) ==
    IF runner_records = <<>> THEN "no_data"
    ELSE IF mapped = <<>> THEN "failed"
    ELSE "stored"

\* run_aggressive_backfill: `continue' in both cases
BackfillDateOutcome(runner_records, mapped) ==
    IF runner_records = <<>> THEN "no_data"
    ELSE IF mapped = <<>> THEN "no_data"
    ELSE "stored"

ProcessDate ==
    /\ date_outcome = "pending"
    /\ LET runner_records == fetch_complete_date_data(date_racecards, date_results)
           mapped == map_batch(runner_records, mappable)
           outcome == IF date_caller = "fetch_yesterday"
                      THEN YesterdayOutcome(runner_records, mapped)
                      ELSE BackfillDateOutcome(runner_records, mapped)
       IN /\ date_outcome' = outcome
          /\ date_stage' =
                IF runner_records = <<>>
                THEN (IF date_racecards # <<>> /\ date_results # <<>>
                      THEN "joined"
                      ELSE FetchStage(date_racecards, date_results))
                ELSE IF mapped = <<>> THEN "mapped"
                ELSE "persisted"
          /\ date_persisted' =
                IF outcome = "stored" THEN StoreAll(mapped, store_ok) ELSE {}
    /\ UNCHANGED <<date_caller, date_racecards, date_results, mappable, store_ok>>

InitDateIdle ==
    /\ date_caller = "backfill"
    /\ date_racecards = <<>>
    /\ date_results = <<>>
    /\ mappable = {}
    /\ store_ok = {}
    /\ date_stage = "pending"
    /\ date_outcome = "pending"
    /\ date_persisted = {}

InitDate ==
    /\ date_caller \in {"fetch_yesterday", "backfill"}
    /\ date_racecards \in DateRacecards
    /\ date_results \in DateResults
    /\ mappable \in SUBSET JoinHorseIds
    /\ store_ok \in SUBSET JoinHorseIds
    /\ date_stage = "pending"
    /\ date_outcome = "pending"
    /\ date_persisted = {}

(***************************************************************************)
(* HistoricalOddsClient.check_exists / upsert_odds                         *)
(***************************************************************************)
MaxPersists == 3

HistDates == {"d1", "d2"}
HistTracks == {"ASCOT"}
HistTimes == {"14:30", "15:05"}
HistHorses == {"A", "B"}

MappedRecord(d, t, rt, h) ==
    [date_of_race |-> d, track |-> t, race_time |-> rt, horse_name |-> h]

\* mapped records; horse_name may be missing
MappedRecords ==
    {MappedRecord(d, t, rt, h) : d \in HistDates, t \in HistTracks,
        rt \in HistTimes, h \in HistHorses \cup {None}}

\* the natural key of the target schema
NaturalKey(rec) == <<rec.date_of_race, rec.track, rec.race_time, rec.horse_name>>

\* rows the existence query returns: same day, track and horse_name
ExistingMatches(rows, rec) ==
    {i \in DOMAIN rows :
        /\ rows[i].date_of_race = rec.date_of_race
        /\ rows[i].track = rec.track
        /\ rows[i].horse_name = rec.horse_name}

\* check_exists: the ids it may return (response.data[0], in the order the
\* store returns the rows); {} stands for None, also when the query raises
check_exists(rows, rec, query_ok) ==
    IF query_ok THEN ExistingMatches(rows, rec) ELSE {}

\* upsert_odds with the existence query and the write succeeding or not
upsert_odds(rec, query_ok, write_ok) ==
    IF rec.horse_name = None
    THEN /\ last_op' = "skipped"
         /\ UNCHANGED <<hist_rows, persisted>>
    ELSE LET ids == check_exists(hist_rows, rec, query_ok) IN
         IF ids # {}
         THEN \E existing_id \in ids :
                 IF write_ok
                 THEN /\ hist_rows' = [hist_rows EXCEPT ![existing_id] = rec]
                      /\ persisted' = persisted \cup {NaturalKey(rec)}
                      /\ last_op' = "updated"
                 ELSE /\ last_op' = "failed"
                      /\ UNCHANGED <<hist_rows, persisted>>
         ELSE IF write_ok
              THEN /\ hist_rows' = Append(hist_rows, rec)
                   /\ persisted' = persisted \cup {NaturalKey(rec)}
                   /\ last_op' = "inserted"
              ELSE /\ last_op' = "failed"
                   /\ UNCHANGED <<hist_rows, persisted>>

Persist ==
    /\ Len(hist_rows) < MaxPersists
    /\ \E rec \in MappedRecords, query_ok \in BOOLEAN, write_ok \in BOOLEAN :
          upsert_odds(rec, query_ok, write_ok)

InitHistUpsert ==
    /\ hist_rows = <<>>
    /\ persisted = {}
    /\ last_op = "none"

(***************************************************************************)
(* HistoricalOddsScheduler: backfill state, completion, run_continuous     *)
(***************************************************************************)
MinToday == 20
MaxToday == 21
MaxFailuresPerCycle == 1

START_DAY == 1                    \* date(start_year, 1, 1)
AGGRESSIVE_DATES_PER_CYCLE == 100
CHUNK_DATES_PER_CYCLE == 10
COMPLETION_PERCENT == 95

NoDataCandidates == {2, 19}    \* dates that may have no race meeting
\* a suspension of racing: consecutive days without a meeting, as many as
\* the daily chunk holds
SuspensionDates == 10 .. (10 + CHUNK_DATES_PER_CYCLE - 1)
NoDataChoices == (SUBSET NoDataCandidates) \cup {SuspensionDates}
FlakyCandidates == {5, 20}     \* dates whose processing may raise

DefaultState == [backfill_complete |-> FALSE, dates_processed |-> 0]

\* load_state: the file's content, the default when it is missing or unreadable
load_state(file, read_ok) ==
    IF file # <<>> /\ read_ok THEN file[1] ELSE DefaultState

\* save_state: the file after the write, unchanged when the write raises
save_state(file, state, write_ok) ==
    IF write_ok THEN <<state>> ELSE file

\* (date.today() - date(start_year, 1, 1)).days + 1
TotalDates_ThroughYesterday(today) == today - START_DAY

TotalDates(today) == (today - START_DAY) + 1

\* get_existing_dates: every date of the table, the empty set when the query raises
get_existing_dates(store, query_ok) == IF query_ok THEN store ELSE {}

RECURSIVE AllDatesMissing(_, _, _)
\* the dates from current to end that are not in existing, ascending
AllDatesMissing(existing, current, end) ==
    IF current > end THEN <<>>
    ELSE (IF current \in existing THEN <<>> ELSE <<current>>)
            \o AllDatesMissing(existing, current + 1, end)

RECURSIVE Reverse(_)
\* all_dates.reverse()
Reverse(list) ==
    IF list = <<>> THEN <<>> ELSE Append(Reverse(Tail(list)), Head(list))

\* get_missing_dates: most recent first, the empty list when the query raises
get_missing_dates(store, start, end, query_ok) ==
    IF query_ok
    THEN Reverse(AllDatesMissing({d \in store : start <= d /\ d <= end},
                                 start, end))
    ELSE <<>>

FirstN(list, n) == SubSeq(list, 1, IF Len(list) < n THEN Len(list) ELSE n)

is_backfill_complete_IgnoresFlag(state, existing_dates, total) ==
    100 * Cardinality(existing_dates) >= COMPLETION_PERCENT * total

\* is_backfill_complete: the returned value
is_backfill_complete(state, existing_dates, total) ==
    \/ state.backfill_complete
    \/ 100 * Cardinality(existing_dates) >= COMPLETION_PERCENT * total

\* is_backfill_complete as a step: sets the flag and saves it when it declares
CheckComplete(query_ok, write_ok, pc_complete, pc_incomplete) ==
    LET existing == get_existing_dates(bf_store, query_ok)
        result == is_backfill_complete(bf_state, existing, total_dates)
        declared == result /\ ~bf_state.backfill_complete
        state2 == IF declared
                  THEN [bf_state EXCEPT !.backfill_complete = TRUE]
                  ELSE bf_state
    IN  /\ bf_state' = state2
        /\ bf_state_file' = IF declared
                            THEN save_state(bf_state_file, state2, write_ok)
                            ELSE bf_state_file
        /\ last_check' = <<[flag_before |-> bf_state.backfill_complete,
                            query_ok |-> query_ok,
                            store |-> bf_store,
                            today |-> bf_today,
                            total_dates |-> total_dates,
                            result |-> result]>>
        /\ bf_pc' = IF result THEN pc_complete ELSE pc_incomplete

\* run_continuous: `if not self.is_backfill_complete()`
Begin ==
    /\ bf_pc = "start"
    /\ \E query_ok \in BOOLEAN, write_ok \in BOOLEAN :
          CheckComplete(query_ok, write_ok, "daily_wait", "p1_check")
    /\ last_scan' = <<>>
    /\ UNCHANGED <<bf_today, bf_store, bf_no_data, total_dates, bf_restarted>>

\* run_continuous: `while not self.is_backfill_complete()`
LoopCheck ==
    /\ bf_pc = "p1_check"
    /\ \E query_ok \in BOOLEAN, write_ok \in BOOLEAN :
          CheckComplete(query_ok, write_ok, "daily_wait", "p1_cycle")
    /\ last_scan' = <<>>
    /\ UNCHANGED <<bf_today, bf_store, bf_no_data, total_dates, bf_restarted>>

\* the dates of a cycle for which records are stored: those with data whose
\* processing does not raise
StoredOf(dates, failed) == {d \in dates : d \notin bf_no_data /\ d \notin failed}

Elements(list) == {list[i] : i \in DOMAIN list}

\* the dates whose processing may raise in one cycle
FailureChoices(dates) ==
    {f \in SUBSET (dates \cap FlakyCandidates) :
        Cardinality(f) <= MaxFailuresPerCycle}

\* __init__ of a new scheduler after the process was stopped
Restarted(read_ok) ==
    /\ bf_state' = load_state(bf_state_file', read_ok)
    /\ total_dates' = TotalDates(bf_today')
    /\ bf_pc' = "start"
    /\ bf_restarted' = TRUE

\* the number of dates a cycle gets through: all of them, or fewer when the
\* process is stopped meanwhile
DoneChoices(n, may_stop) ==
    IF may_stop THEN 0..n ELSE {n}

\* run_aggressive_backfill(dates_per_cycle) on the table `store`; when the
\* process is stopped meanwhile, a new one is started
run_aggressive_backfill(store, dates_per_cycle, may_stop, pc_some, pc_none) ==
    \E query_ok \in BOOLEAN :
    \E missing_dates \in {get_missing_dates(store, START_DAY, bf_today' - 1,
                                            query_ok)} :
    \E dates_to_process \in {FirstN(missing_dates, dates_per_cycle)} :
        /\ last_scan' = <<[missing_dates |-> missing_dates,
                           store |-> store,
                           today |-> bf_today',
                           after_restart |-> bf_restarted]>>
        /\ \E done \in DoneChoices(Len(dates_to_process), may_stop) :
           \E processed \in {Elements(FirstN(dates_to_process, done))} :
           \E failed \in FailureChoices(processed) :
           \E stored \in {StoredOf(processed, failed)} :
           \E write_ok \in BOOLEAN :
              LET successful_dates == Cardinality(stored)
                  state2 == IF successful_dates = 0 THEN bf_state
                            ELSE [bf_state EXCEPT
                                    !.dates_processed = successful_dates]
              IN  /\ bf_store' = store \cup stored
                  /\ bf_state_file' = IF successful_dates = 0 THEN bf_state_file
                                      ELSE save_state(bf_state_file, state2,
                                                      write_ok)
                  /\ IF done < Len(dates_to_process)
                     THEN \E read_ok \in BOOLEAN : Restarted(read_ok)
                     ELSE /\ bf_state' = state2
                          /\ bf_pc' = IF successful_dates = 0
                                     THEN pc_none ELSE pc_some
                          /\ bf_restarted' = FALSE
                          /\ UNCHANGED total_dates

\* phase 1: stats = run_aggressive_backfill(dates_per_cycle=100), then
\* `if stats['dates_processed'] == 0: break`
AggressiveCycle ==
    /\ bf_pc = "p1_cycle"
    /\ UNCHANGED bf_today
    /\ run_aggressive_backfill(bf_store, AGGRESSIVE_DATES_PER_CYCLE, TRUE,
                               "p1_after", "daily_wait")
    /\ last_check' = <<>>
    /\ UNCHANGED bf_no_data

\* phase 1: `if self.is_backfill_complete(): break`, else the 30 s pause
CycleEnd ==
    /\ bf_pc = "p1_after"
    /\ \E query_ok \in BOOLEAN, write_ok \in BOOLEAN :
          CheckComplete(query_ok, write_ok, "daily_wait", "p1_check")
    /\ last_scan' = <<>>
    /\ UNCHANGED <<bf_today, bf_store, bf_no_data, total_dates, bf_restarted>>

\* fetch_yesterday: the table after it
fetch_yesterday(store, yesterday, stores) ==
    IF stores /\ yesterday \notin bf_no_data THEN store \cup {yesterday} ELSE store

\* phase 2: sleep until 1 AM, then run_daily_job: fetch_yesterday and
\* run_backfill_chunk(max_dates=10)
DailyJob ==
    /\ bf_pc = "daily_wait"
    /\ bf_today < MaxToday
    /\ bf_today' = bf_today + 1
    /\ \E stores \in BOOLEAN, chunk_query_ok \in BOOLEAN :
          LET store1 == fetch_yesterday(bf_store, bf_today, stores) IN
          IF get_missing_dates(store1, START_DAY, bf_today, chunk_query_ok) = <<>>
          THEN /\ bf_store' = store1
               /\ bf_pc' = "daily_wait"
               /\ last_scan' = <<>>
               /\ UNCHANGED <<bf_state, bf_state_file, total_dates, bf_restarted>>
          ELSE run_aggressive_backfill(store1, CHUNK_DATES_PER_CYCLE, FALSE,
                                       "daily_wait", "daily_wait")
    /\ last_check' = <<>>
    /\ UNCHANGED bf_no_data

\* midnight passes while phase 1 is running
DayPasses ==
    /\ bf_pc \in {"p1_check", "p1_cycle", "p1_after"}
    /\ bf_today < MaxToday
    /\ bf_today' = bf_today + 1
    /\ last_scan' = <<>>
    /\ last_check' = <<>>
    /\ UNCHANGED <<bf_store, bf_no_data, bf_state, bf_state_file, total_dates,
                   bf_pc, bf_restarted>>

\* the process is stopped between two steps and started again
Restart ==
    /\ bf_pc # "start"
    /\ UNCHANGED <<bf_today, bf_state_file>>
    /\ \E read_ok \in BOOLEAN : Restarted(read_ok)
    /\ last_scan' = <<>>
    /\ last_check' = <<>>
    /\ UNCHANGED <<bf_store, bf_no_data>>

InitBackfillIdle ==
    /\ bf_today = MinToday
    /\ bf_store = {}
    /\ bf_no_data = {}
    /\ bf_state = DefaultState
    /\ bf_state_file = <<>>
    /\ total_dates = TotalDates(MinToday)
    /\ bf_pc = "start"
    /\ bf_restarted = FALSE
    /\ last_scan = <<>>
    /\ last_check = <<>>

\* first run: empty table, no state file
InitBackfill ==
    /\ bf_today = MinToday
    /\ bf_store = {}
    /\ bf_no_data \in NoDataChoices
    /\ bf_state = load_state(<<>>, TRUE)
    /\ bf_state_file = <<>>
    /\ total_dates = TotalDates(bf_today)
    /\ bf_pc = "start"
    /\ bf_restarted = FALSE
    /\ last_scan = <<>>
    /\ last_check = <<>>

(***************************************************************************)
(* Entry points, signal handlers and the control loops they run            *)
(***************************************************************************)
MaxShutdownCycles == 3
CycleBatches == 2               \* batches a fetch cycle writes

Entries == {"start_workers", "start", "cron_live"}
Signals == {"SIGINT", "SIGTERM"}
CyclePcs == {"in_initial", "in_cycle"}

\* the entry points that run ConsolidatedScheduler.run
IsConsolidated(entry) == entry \in {"start_workers", "start"}

\* the loop condition: `while self.running` / `while True`
LoopCondition(entry, self_running) ==
    IF IsConsolidated(entry) THEN self_running ELSE TRUE

\* main(): the scheduler is started and runs its first fetch cycle
\* (setup_schedules: self.run_live_odds(); run_continuous: initial fetch)
Startup ==
    /\ sd_pc = "startup"
    /\ sd_self_running' = IsConsolidated(sd_entry)
    /\ sd_pc' = "in_initial"
    /\ sd_cycles' = 1
    /\ UNCHANGED <<sd_entry, sd_signal, sd_flag, sd_api_exiting, sd_batches,
                   sd_started_after, sd_preempted>>

\* one batch of the cycle in flight is written
WriteBatch ==
    /\ sd_pc \in CyclePcs
    /\ sd_batches < CycleBatches
    /\ sd_batches' = sd_batches + 1
    /\ UNCHANGED <<sd_entry, sd_signal, sd_flag, sd_self_running,
                   sd_api_exiting, sd_pc, sd_cycles, sd_started_after,
                   sd_preempted>>

\* the cycle in flight returns
FinishCycle ==
    /\ sd_pc \in CyclePcs
    /\ sd_batches = CycleBatches
    /\ sd_pc' = "between"
    /\ sd_batches' = 0
    /\ UNCHANGED <<sd_entry, sd_signal, sd_flag, sd_self_running,
                   sd_api_exiting, sd_cycles, sd_started_after, sd_preempted>>

\* the loop tests its condition and runs the next cycle, or ends
NextCycle ==
    /\ sd_pc = "between"
    /\ sd_cycles < MaxShutdownCycles
    /\ IF LoopCondition(sd_entry, sd_self_running)
       THEN /\ sd_pc' = "in_cycle"
            /\ sd_cycles' = sd_cycles + 1
            /\ sd_started_after' = IF sd_signal = "none" THEN sd_started_after
                                   ELSE sd_started_after + 1
       ELSE /\ sd_pc' = "terminated"
            /\ UNCHANGED <<sd_cycles, sd_started_after>>
    /\ UNCHANGED <<sd_entry, sd_signal, sd_flag, sd_self_running,
                   sd_api_exiting, sd_batches, sd_preempted>>

\* start_workers.signal_handler: `global running; running = False`
SignalStartWorkers ==
    /\ sd_flag' = TRUE
    /\ UNCHANGED <<sd_self_running, sd_api_exiting, sd_pc, sd_preempted>>

\* start.signal_handler: shutdown_flag.set(), unless the API server running in
\* the main thread has installed its own handler and starts to return
SignalStart ==
    \E server_handles \in BOOLEAN :
        /\ sd_flag' = (sd_flag \/ ~server_handles)
        /\ sd_api_exiting' = server_handles
        /\ UNCHANGED <<sd_self_running, sd_pc, sd_preempted>>

\* cron_live.main registers no handler: SIGTERM ends the process, SIGINT
\* raises KeyboardInterrupt where the main thread is; run_continuous catches
\* it in its loop only
SignalCronLive(sig) ==
    /\ sd_pc' = IF sig = "SIGINT" /\ sd_pc \in {"between", "in_cycle"}
                THEN "terminated" ELSE "killed"
    /\ sd_preempted' = (sd_pc \in CyclePcs)
    /\ UNCHANGED <<sd_flag, sd_self_running, sd_api_exiting>>

\* a shutdown signal is delivered to the process
Signal ==
    /\ sd_signal = "none"
    /\ sd_pc \in {"in_initial", "between", "in_cycle"}
    /\ \E sig \in Signals :
          /\ sd_signal' = sig
          /\ IF sd_entry = "start_workers" THEN SignalStartWorkers
             ELSE IF sd_entry = "start" THEN SignalStart
             ELSE SignalCronLive(sig)
    /\ UNCHANGED <<sd_entry, sd_batches, sd_cycles, sd_started_after>>

\* start.main: run_api returns, `finally: shutdown_flag.set()`, the process
\* exits and its daemon scheduler thread ends where it is
ProcessExit ==
    /\ sd_entry = "start"
    /\ sd_api_exiting
    /\ sd_pc \in {"in_initial", "between", "in_cycle"}
    /\ sd_flag' = TRUE
    /\ sd_pc' = "killed"
    /\ sd_preempted' = (sd_pc \in CyclePcs)
    /\ UNCHANGED <<sd_entry, sd_signal, sd_self_running, sd_api_exiting,
                   sd_batches, sd_cycles, sd_started_after>>

InitShutdownIdle ==
    /\ sd_entry = "start_workers"
    /\ sd_signal = "none"
    /\ sd_flag = FALSE
    /\ sd_self_running = FALSE
    /\ sd_api_exiting = FALSE
    /\ sd_pc = "startup"
    /\ sd_batches = 0
    /\ sd_cycles = 0
    /\ sd_started_after = 0
    /\ sd_preempted = FALSE

InitShutdown ==
    /\ sd_entry \in Entries
    /\ sd_signal = "none"
    /\ sd_flag = FALSE
    /\ sd_self_running = FALSE
    /\ sd_api_exiting = FALSE
    /\ sd_pc = "startup"
    /\ sd_batches = 0
    /\ sd_cycles = 0
    /\ sd_started_after = 0
    /\ sd_preempted = FALSE

(***************************************************************************)
(* HistoricalOddsFetcher: provider requests and HTTP 429                   *)
(***************************************************************************)
MaxAttempts == 3                \* requests sent for one results page
MaxUnits == 2                   \* regions ('gb', 'ire') or results pages

FetcherFunctions == {"get_racecards", "get_race_results", "get_completed_races"}

\* what the provider answers: an HTTP status, or the request raises
Statuses == {"200", "404", "429", "500", "exception"}

\* get_racecards for one region: a 429 waits 5 s and `continue`s with the
\* next region
RequestRacecards ==
    /\ rq_fn = "get_racecards"
    /\ rq_unit <= MaxUnits
    /\ \E status \in Statuses :
          /\ rq_statuses' = [rq_statuses EXCEPT ![rq_unit] = <<status>>]
          /\ rq_outcome' = [rq_outcome EXCEPT ![rq_unit] =
                               IF status = "200" THEN "data"
                               ELSE IF status = "404" THEN "none"
                               ELSE IF status = "429" THEN "dropped"
                               ELSE "error"]
          /\ rq_errors' = IF status \in {"500", "exception"}
                          THEN rq_errors + 1 ELSE rq_errors
          /\ rq_cooldowns' = IF status = "429" THEN rq_cooldowns + 1
                             ELSE rq_cooldowns
    /\ rq_unit' = rq_unit + 1
    /\ UNCHANGED rq_fn

\* get_race_results for one request of a page: a 429 waits 5 s and
\* `continue`s the `while True` loop with the same page
RequestResults ==
    /\ rq_fn = "get_race_results"
    /\ rq_unit <= MaxUnits
    /\ Len(rq_statuses[rq_unit]) < MaxAttempts
    /\ \E status \in Statuses, full_page \in BOOLEAN :
          /\ rq_statuses' = [rq_statuses EXCEPT
                                ![rq_unit] = Append(rq_statuses[rq_unit], status)]
          /\ rq_outcome' = [rq_outcome EXCEPT ![rq_unit] =
                               IF status = "200" THEN "data"
                               ELSE IF status = "404" THEN "none"
                               ELSE IF status = "429" THEN "pending"
                               ELSE "error"]
          /\ rq_errors' = IF status \in {"500", "exception"}
                          THEN rq_errors + 1 ELSE rq_errors
          /\ rq_cooldowns' = IF status = "429" THEN rq_cooldowns + 1
                             ELSE rq_cooldowns
          /\ rq_unit' = IF status = "429" THEN rq_unit
                        ELSE IF status = "200" /\ full_page THEN rq_unit + 1
                        ELSE MaxUnits + 1
    /\ UNCHANGED rq_fn

\* get_completed_races for one region: a 429 waits 5 s and sends the request
\* once more; a 200 answer to the retry is read for 'results', which a
\* racecards answer does not hold, and any other answer is passed over
RequestCompletedRaces ==
    /\ rq_fn = "get_completed_races"
    /\ rq_unit <= MaxUnits
    /\ \E status \in Statuses, retry_status \in Statuses :
          /\ rq_statuses' = [rq_statuses EXCEPT ![rq_unit] =
                                IF status = "429" THEN <<status, retry_status>>
                                ELSE <<status>>]
          /\ rq_outcome' = [rq_outcome EXCEPT ![rq_unit] =
                               IF status = "200" THEN "data"
                               ELSE IF status = "404" THEN "none"
                               ELSE IF status = "429"
                                    THEN (IF retry_status = "200" THEN "lost"
                                          ELSE IF retry_status = "exception"
                                               THEN "error"
                                          ELSE "dropped")
                               ELSE "error"]
          /\ rq_errors' = IF \/ status \in {"500", "exception"}
                             \/ status = "429" /\ retry_status = "exception"
                          THEN rq_errors + 1 ELSE rq_errors
          /\ rq_cooldowns' = IF status = "429" THEN rq_cooldowns + 1
                             ELSE rq_cooldowns
    /\ rq_unit' = rq_unit + 1
    /\ UNCHANGED rq_fn

InitRequestIdle ==
    /\ rq_fn = "get_racecards"
    /\ rq_unit = 1
    /\ rq_statuses = [u \in 1..MaxUnits |-> <<>>]
    /\ rq_outcome = [u \in 1..MaxUnits |-> "pending"]
    /\ rq_errors = 0
    /\ rq_cooldowns = 0

InitRequest ==
    /\ rq_fn \in FetcherFunctions
    /\ rq_unit = 1
    /\ rq_statuses = [u \in 1..MaxUnits |-> <<>>]
    /\ rq_outcome = [u \in 1..MaxUnits |-> "pending"]
    /\ rq_errors = 0
    /\ rq_cooldowns = 0

(***************************************************************************)
(* LiveOddsScheduler.run_continuous: the race list of an interval decision *)
(* and the race list of the fetch cycle that follows the sleep             *)
(* (live_odds/cron_live.py and odds_api/live_odds/cron_live.py).  Time is  *)
(* counted in units of 10 seconds, the shortest interval.                  *)
(***************************************************************************)
MaxFeedCycles == 3
SecondsPerUnit == 10
SecondsPerMinute == 60
UnitsPerMinute == SecondsPerMinute \div SecondsPerUnit

FeedRaces == <<"r1", "r2">>
\* off times on the provider's card: about to start, imminent, soon, upcoming
OffUnits == {0, 1, 20, 100, 800}

\* (race_time - now).total_seconds() / 60 is a float that the code compares
\* with whole numbers of minutes only: its ceiling decides every comparison
\* the same way
MinutesUntil(off, now) == 0 - ((now - off) \div UnitsPerMinute)

\* the filter of get_upcoming_races on a race with a parsable off_dt:
\*   live_odds: race_time > now - timedelta(minutes=10)
\*   odds_api:  time_until_race >= 0
StillListed(v, off, now) ==
    IF v = "live_odds" THEN off > now - LIVE_ODDS_GRACE * UnitsPerMinute
    ELSE off - now >= 0

\* get_upcoming_races: the provider's races that pass the filter, or [] when
\* the request raises (`except Exception: return []')
get_upcoming_races(v, off, now, api_ok) ==
    IF api_ok THEN SelectSeq(FeedRaces, LAMBDA r : StillListed(v, off[r], now))
    ELSE <<>>

\* the races as get_optimal_interval reads them
AsRaceList(ids, off, now) ==
    [i \in DOMAIN ids |-> Race("ok", MinutesUntil(off[ids[i]], now))]

\* nearest_race of get_optimal_interval: the first race of the list with the
\* least time to go among those the grace test keeps
NearestRace(v, ids, off, now) ==
    LET kept == {i \in DOMAIN ids :
                    MinutesUntil(off[ids[i]], now) >= 0 - GracePeriod(v)}
    IN IF kept = {} THEN <<>>
       ELSE <<ids[CHOOSE i \in kept :
                  \A j \in kept : \/ off[ids[i]] < off[ids[j]]
                                  \/ off[ids[i]] = off[ids[j]] /\ i <= j]>>

\* the immediate initial fetch
FeedInitialFetch ==
    /\ fd_pc = "start"
    /\ \E api_ok \in BOOLEAN :
          fd_processed' = SeqRange(get_upcoming_races(fd_variant, fd_off, fd_now, api_ok))
    /\ fd_cycles' = 1
    /\ fd_pc' = "decide"
    /\ UNCHANGED <<fd_variant, fd_off, fd_now, fd_fed, fd_nearest, fd_interval>>

\* races = self.get_upcoming_races(); interval, reason =
\* self.get_optimal_interval(races)
FeedDecide ==
    /\ fd_pc = "decide"
    /\ fd_cycles < MaxFeedCycles
    /\ \E api_ok \in BOOLEAN :
         \E ids \in {get_upcoming_races(fd_variant, fd_off, fd_now, api_ok)} :
            /\ fd_fed' = SeqRange(ids)
            /\ fd_nearest' = NearestRace(fd_variant, ids, fd_off, fd_now)
            /\ fd_interval' =
                  get_optimal_interval(AsRaceList(ids, fd_off, fd_now), fd_variant)
    /\ fd_pc' = "sleep"
    /\ UNCHANGED <<fd_variant, fd_off, fd_now, fd_processed, fd_cycles>>

\* time.sleep(interval); self.run_fetch_cycle(), which lists the races again
FeedSleepAndFetch ==
    /\ fd_pc = "sleep"
    /\ fd_now' = fd_now + fd_interval \div SecondsPerUnit
    /\ \E api_ok \in BOOLEAN :
          fd_processed' =
             SeqRange(get_upcoming_races(fd_variant, fd_off, fd_now', api_ok))
    /\ fd_cycles' = fd_cycles + 1
    /\ fd_pc' = "decide"
    /\ UNCHANGED <<fd_variant, fd_off, fd_fed, fd_nearest, fd_interval>>

InitFeedIdle ==
    /\ fd_variant = "live_odds"
    /\ fd_off = [r \in SeqRange(FeedRaces) |-> 0]
    /\ fd_now = 0
    /\ fd_pc = "done"
    /\ fd_fed = {}
    /\ fd_nearest = <<>>
    /\ fd_interval = INTERVAL_CHECK
    /\ fd_processed = {}
    /\ fd_cycles = 0

InitFeed ==
    /\ fd_variant \in {"live_odds", "odds_api"}
    /\ fd_off \in [SeqRange(FeedRaces) -> OffUnits]
    /\ fd_now = 0
    /\ fd_pc = "start"
    /\ fd_fed = {}
    /\ fd_nearest = <<>>
    /\ fd_interval = INTERVAL_CHECK
    /\ fd_processed = {}
    /\ fd_cycles = 0

(***************************************************************************)
(* LiveOddsFetcher.fetch_all_live_odds: fetch_live_odds runs on the        *)
(* threads of a ThreadPoolExecutor while the calling thread collects the   *)
(* futures; all of them update the one self.stats dict.                    *)
(* `self.stats['errors'] += 1' is a load, an add and a store, and the      *)
(* interpreter may switch threads between the load and the store.          *)
(***************************************************************************)
MaxCombos == 3
max_workers == 2

Combos == 1..MaxCombos
Busy == {c \in Combos : th_pc[c] \in {"running", "raised", "loaded"}}

\* the executor hands a submitted call to a free pool thread
WorkerStart(c) ==
    /\ th_pc[c] = "queued"
    /\ Cardinality(Busy) < max_workers
    /\ th_pc' = [th_pc EXCEPT ![c] = "running"]
    /\ UNCHANGED <<th_local, th_errors, th_raised, th_collected,
                   th_odds_fetched, th_in_update>>

\* fetch_live_odds up to its return or its `except Exception'
WorkerRequest(c) ==
    /\ th_pc[c] = "running"
    /\ \E raises \in BOOLEAN :
          /\ th_pc' = [th_pc EXCEPT ![c] = IF raises THEN "raised" ELSE "done"]
          /\ th_raised' = IF raises THEN th_raised \cup {c} ELSE th_raised
    /\ UNCHANGED <<th_local, th_errors, th_collected, th_odds_fetched,
                   th_in_update>>

\* the load of self.stats['errors'] += 1 in the handler
WorkerLoadErrors(c) ==
    /\ th_pc[c] = "raised"
    /\ th_pc' = [th_pc EXCEPT ![c] = "loaded"]
    /\ th_local' = [th_local EXCEPT ![c] = th_errors]
    /\ th_in_update' =
          LET others == {d \in Combos : th_pc[d] = "loaded"}
          IN IF others = {} THEN th_in_update
             ELSE th_in_update \cup others \cup {c}
    /\ UNCHANGED <<th_errors, th_raised, th_collected, th_odds_fetched>>

\* the store of self.stats['errors'] += 1: the loaded value plus one
StoredErrors(current, loaded) == loaded + 1

WorkerStoreErrors(c) ==
    /\ th_pc[c] = "loaded"
    /\ th_pc' = [th_pc EXCEPT ![c] = "done"]
    /\ th_errors' = StoredErrors(th_errors, th_local[c])
    /\ UNCHANGED <<th_local, th_raised, th_collected, th_odds_fetched,
                   th_in_update>>

\* the body of `for future in as_completed(...)' on the calling thread: one
\* odds record per call that returned odds
MainCollect(c) ==
    /\ th_pc[c] = "done"
    /\ c \notin th_collected
    /\ th_collected' = th_collected \cup {c}
    /\ th_odds_fetched' = th_odds_fetched + (IF c \in th_raised THEN 0 ELSE 1)
    /\ UNCHANGED <<th_pc, th_local, th_errors, th_raised, th_in_update>>

InitThreadIdle ==
    /\ th_pc = [c \in Combos |-> "done"]
    /\ th_local = [c \in Combos |-> 0]
    /\ th_errors = 0
    /\ th_raised = {}
    /\ th_collected = Combos
    /\ th_odds_fetched = 0
    /\ th_in_update = {}

\* after the submissions of a fetcher whose race listing raised no error
InitThread ==
    /\ th_pc = [c \in Combos |-> "queued"]
    /\ th_local = [c \in Combos |-> 0]
    /\ th_errors = 0
    /\ th_raised = {}
    /\ th_collected = {}
    /\ th_odds_fetched = 0
    /\ th_in_update = {}

(***************************************************************************)
(* LiveOddsFetcher.parse_embedded_odds (odds_api/live_odds): the quotes of *)
(* one runner, one per entry of the racecard's embedded odds array         *)
(***************************************************************************)
MaxEmbedded == 2

\* bookmaker names as the provider spells them
BookmakerNames == {"Bet365", "Boyle", "BoyleSports", "Acme Bets"}
\* the `decimal' field: a price, or a marker for withdrawn / SP only / zero
DecimalTexts == {"2", "3", "-", "0"}

BookieData(b, d) == [bookmaker |-> b, decimal |-> d]
\* the provider lists a bookmaker name at most once per runner
EmbeddedOdds ==
    {e \in UNION {[1..n -> {BookieData(b, d) : b \in BookmakerNames,
                                               d \in DecimalTexts}] :
                     n \in 0..MaxEmbedded} :
        \A i, j \in DOMAIN e : i # j => e[i].bookmaker # e[j].bookmaker}

\* bookmaker_name.lower().replace(' ', '')
BookmakerKey(name) ==
    CASE name = "Bet365" -> "bet365"
      [] name = "Boyle" -> "boyle"
      [] name = "BoyleSports" -> "boylesports"
      [] name = "Acme Bets" -> "acmebets"

\* BOOKMAKER_MAPPING.get(bookmaker_key)['id'], the key itself when unmapped
BookmakerId(key) ==
    CASE key = "bet365" -> "bet365"
      [] key = "boyle" -> "boylesports"
      [] key = "boylesports" -> "boylesports"
      [] OTHER -> key

\* float(decimal_odds) of a price text
DecimalValue(text) ==
    CASE text = "2" -> 2
      [] text = "3" -> 3
      [] OTHER -> 0

\* `if decimal_odds in ['-', 'SP', ''] or not decimal_odds: continue' and
\* `if odds.odds_decimal:'
IsQuoted(text) == text \notin {"-", "SP", ""} /\ DecimalValue(text) # 0

RECURSIVE parse_embedded_odds(_)
parse_embedded_odds(embedded_odds) ==
    IF embedded_odds = <<>> THEN <<>>
    ELSE LET bookie_data == Head(embedded_odds)
             rest == parse_embedded_odds(Tail(embedded_odds))
         IN IF ~IsQuoted(bookie_data.decimal) THEN rest
            ELSE <<[bookmaker_id |->
                       BookmakerId(BookmakerKey(bookie_data.bookmaker)),
                    odds_decimal |-> DecimalValue(bookie_data.decimal)]>>
                 \o rest

ParseEmbedded ==
    /\ ~pe_parsed
    /\ pe_parsed' = TRUE
    /\ pe_odds_list' = parse_embedded_odds(pe_embedded)
    /\ UNCHANGED pe_embedded

InitParseIdle ==
    /\ pe_embedded = <<>>
    /\ pe_parsed = FALSE
    /\ pe_odds_list = <<>>

InitParse ==
    /\ pe_embedded \in EmbeddedOdds
    /\ pe_parsed = FALSE
    /\ pe_odds_list = <<>>

(***************************************************************************)
(* The cycles of the live scheduler while one race approaches:             *)
(* LiveOddsScheduler.run_continuous (live_odds/cron_live.py and            *)
(* odds_api/live_odds/cron_live.py) and ConsolidatedScheduler.run with     *)
(* run_live_odds (odds_api/scheduler.py), every request succeeding.  Time  *)
(* is counted in units of 10 seconds.                                      *)
(***************************************************************************)
TierDrivers == {"live_odds", "odds_api", "consolidated"}

\* the race list code a driver runs
TierVariant(drv) == IF drv = "live_odds" THEN "live_odds" ELSE "odds_api"

\* race r1 is first seen more than 120 minutes before it is off; race r2 is
\* off at the start, in between, or after r1
TrackedOffUnits == {721, 724, 755, 811}
OtherOffUnits == {0, 400, 900}

\* what a fetch cycle, the race listing that follows it and whatever else the
\* loop runs before it sleeps again may take, in units: the code sets no limit
SafeCycleUnits == 24
SlowCycleUnits == 31
CycleUnits == {0, 1, SafeCycleUnits, SlowCycleUnits}

\* the tier a moment belongs to, by the thresholds of get_optimal_interval
TierOf(off, at) ==
    LET minutes == MinutesUntil(off, at) IN
    IF at > off THEN "started"
    ELSE IF minutes <= THRESHOLD_IMMINENT THEN "imminent"
    ELSE IF minutes <= THRESHOLD_SOON THEN "soon"
    ELSE IF minutes <= THRESHOLD_UPCOMING THEN "upcoming"
    ELSE "far"

\* get_upcoming_races followed by get_optimal_interval at time `now', in units
NextIntervalUnits(drv, off, now) ==
    get_optimal_interval(
        AsRaceList(get_upcoming_races(TierVariant(drv), off, now, TRUE), off, now),
        TierVariant(drv)) \div SecondsPerUnit

\* a fetch cycle starts at `start' and the loop is back after `d' units
TierCycle(start, d) ==
    /\ tr_seen' = tr_seen \cup {TierOf(tr_off["r1"], start)}
    /\ tr_now' = start + d
    /\ tr_slow' = (tr_slow \/ d > SafeCycleUnits)

\* the immediate initial fetch: run_continuous before its loop,
\* setup_schedules before run sets next_live_check = datetime.now()
TierInitialFetch ==
    /\ tr_pc = "start"
    /\ tr_pc' = "loop"
    /\ \E d \in CycleUnits :
          /\ TierCycle(tr_now, d)
          /\ tr_next_check' = tr_now + d
    /\ UNCHANGED <<tr_driver, tr_off>>

\* one pass of the loop of run_continuous: list, choose, sleep, fetch
TierSleepAndFetch ==
    /\ tr_pc = "loop"
    /\ tr_driver # "consolidated"
    /\ tr_now <= tr_off["r1"]
    /\ \E d \in CycleUnits :
          TierCycle(tr_now + NextIntervalUnits(tr_driver, tr_off, tr_now), d)
    /\ UNCHANGED <<tr_driver, tr_off, tr_pc, tr_next_check>>

\* ConsolidatedScheduler.run once next_live_check is due: run_live_odds
\* fetches, then lists and chooses; the next check counts from `now', read
\* before run_live_odds
TierConsolidatedCheck ==
    /\ tr_pc = "loop"
    /\ tr_driver = "consolidated"
    /\ tr_now <= tr_off["r1"]
    /\ \E d \in CycleUnits :
       \E start \in {IF tr_next_check > tr_now THEN tr_next_check ELSE tr_now} :
          /\ TierCycle(start, d)
          /\ tr_next_check' = start + NextIntervalUnits(tr_driver, tr_off, start + d)
    /\ UNCHANGED <<tr_driver, tr_off, tr_pc>>

InitTierIdle ==
    /\ tr_driver = "live_odds"
    /\ tr_off = [r \in SeqRange(FeedRaces) |-> 0]
    /\ tr_now = 0
    /\ tr_pc = "done"
    /\ tr_next_check = 0
    /\ tr_seen = {}
    /\ tr_slow = FALSE

InitTier ==
    /\ tr_driver \in TierDrivers
    /\ \E t \in TrackedOffUnits, o \in OtherOffUnits :
          tr_off = [r \in SeqRange(FeedRaces) |-> IF r = "r1" THEN t ELSE o]
    /\ tr_now = 0
    /\ tr_pc = "start"
    /\ tr_next_check = 0
    /\ tr_seen = {}
    /\ tr_slow = FALSE

(***************************************************************************)
(* Specifications                                                          *)
(***************************************************************************)
InitLiveIdle == InitUpsertIdle /\ InitIntervalIdle /\ InitSchedIdle
InitProcIdle == InitShutdownIdle /\ InitRequestIdle /\ InitFeedIdle /\ InitThreadIdle
                    /\ InitParseIdle /\ InitTierIdle
InitHistIdle == InitJoinIdle /\ InitMapIdle /\ InitDateIdle /\ InitHistUpsert
                    /\ InitBackfillIdle

Init == InitUpsert /\ InitIntervalIdle /\ InitSchedIdle /\ InitHistIdle /\ InitProcIdle
Next == update_live_odds /\ UNCHANGED <<intervalVars, schedVars, histVars, procVars>>
Spec == Init /\ [][Next]_vars

InitI == InitInterval /\ InitUpsertIdle /\ InitSchedIdle /\ InitHistIdle /\ InitProcIdle
NextI ==
    \/ Decide /\ UNCHANGED <<upsertVars, schedVars, histVars, procVars>>
    \/ Tick /\ UNCHANGED <<upsertVars, schedVars, histVars, procVars>>
SpecInterval == InitI /\ [][NextI]_vars

InitS == InitSched /\ InitUpsertIdle /\ InitIntervalIdle /\ InitHistIdle /\ InitProcIdle
NextS ==
    \/ InitialFetch /\ UNCHANGED <<upsertVars, intervalVars, histVars, procVars>>
    \/ LoopStop /\ UNCHANGED <<upsertVars, intervalVars, histVars, procVars>>
    \/ LoopFetch /\ UNCHANGED <<upsertVars, intervalVars, histVars, procVars>>
    \/ LoopError /\ UNCHANGED <<upsertVars, intervalVars, histVars, procVars>>
    \/ ConsolidatedLiveOdds /\ UNCHANGED <<upsertVars, intervalVars, histVars, procVars>>
    \/ ConsolidatedError /\ UNCHANGED <<upsertVars, intervalVars, histVars, procVars>>
SpecSched == InitS /\ [][NextS]_vars

InitJ == InitLiveIdle /\ InitJoin /\ InitMapIdle /\ InitDateIdle
            /\ InitHistUpsert /\ InitBackfillIdle /\ InitProcIdle
NextJ == Join /\ UNCHANGED <<liveVars, procVars, mapVars, dateVars, histUpsertVars,
                             backfillVars>>
SpecJoin == InitJ /\ [][NextJ]_vars

InitM == InitLiveIdle /\ InitJoinIdle /\ InitMap /\ InitDateIdle
            /\ InitHistUpsert /\ InitBackfillIdle /\ InitProcIdle
NextM == MapRace /\ UNCHANGED <<liveVars, procVars, joinVars, dateVars, histUpsertVars,
                                backfillVars>>
SpecMap == InitM /\ [][NextM]_vars

InitD == InitLiveIdle /\ InitJoinIdle /\ InitMapIdle /\ InitDate
            /\ InitHistUpsert /\ InitBackfillIdle /\ InitProcIdle
NextD == ProcessDate /\ UNCHANGED <<liveVars, procVars, joinVars, mapVars, histUpsertVars,
                                    backfillVars>>
SpecDate == InitD /\ [][NextD]_vars

InitH == InitLiveIdle /\ InitJoinIdle /\ InitMapIdle /\ InitDateIdle
            /\ InitHistUpsert /\ InitBackfillIdle /\ InitProcIdle
NextH == Persist /\ UNCHANGED <<liveVars, procVars, joinVars, mapVars, dateVars,
                                backfillVars>>
SpecHistUpsert == InitH /\ [][NextH]_vars

InitB == InitLiveIdle /\ InitJoinIdle /\ InitMapIdle /\ InitDateIdle
            /\ InitHistUpsert /\ InitBackfill /\ InitProcIdle
NextB ==
    \/ Begin /\ UNCHANGED <<liveVars, procVars, joinVars, mapVars, dateVars, histUpsertVars>>
    \/ LoopCheck /\ UNCHANGED <<liveVars, procVars, joinVars, mapVars, dateVars, histUpsertVars>>
    \/ AggressiveCycle /\ UNCHANGED <<liveVars, procVars, joinVars, mapVars, dateVars, histUpsertVars>>
    \/ CycleEnd /\ UNCHANGED <<liveVars, procVars, joinVars, mapVars, dateVars, histUpsertVars>>
    \/ DailyJob /\ UNCHANGED <<liveVars, procVars, joinVars, mapVars, dateVars, histUpsertVars>>
    \/ DayPasses /\ UNCHANGED <<liveVars, procVars, joinVars, mapVars, dateVars, histUpsertVars>>
    \/ Restart /\ UNCHANGED <<liveVars, procVars, joinVars, mapVars, dateVars, histUpsertVars>>
SpecBackfill == InitB /\ [][NextB]_vars

InitSD == InitLiveIdle /\ InitHistIdle /\ InitShutdown /\ InitRequestIdle
            /\ InitFeedIdle /\ InitThreadIdle /\ InitParseIdle /\ InitTierIdle
NextSD ==
    \/ Startup /\ UNCHANGED <<liveVars, histVars, requestVars, feedVars, threadVars, parseVars, tierVars>>
    \/ WriteBatch /\ UNCHANGED <<liveVars, histVars, requestVars, feedVars, threadVars, parseVars, tierVars>>
    \/ FinishCycle /\ UNCHANGED <<liveVars, histVars, requestVars, feedVars, threadVars, parseVars, tierVars>>
    \/ NextCycle /\ UNCHANGED <<liveVars, histVars, requestVars, feedVars, threadVars, parseVars, tierVars>>
    \/ Signal /\ UNCHANGED <<liveVars, histVars, requestVars, feedVars, threadVars, parseVars, tierVars>>
    \/ ProcessExit /\ UNCHANGED <<liveVars, histVars, requestVars, feedVars, threadVars, parseVars, tierVars>>
SpecShutdown == InitSD /\ [][NextSD]_vars

InitRQ == InitLiveIdle /\ InitHistIdle /\ InitShutdownIdle /\ InitRequest
            /\ InitFeedIdle /\ InitThreadIdle /\ InitParseIdle /\ InitTierIdle
NextRQ ==
    \/ RequestRacecards /\ UNCHANGED <<liveVars, histVars, shutdownVars, feedVars, threadVars, parseVars, tierVars>>
    \/ RequestResults /\ UNCHANGED <<liveVars, histVars, shutdownVars, feedVars, threadVars, parseVars, tierVars>>
    \/ RequestCompletedRaces /\ UNCHANGED <<liveVars, histVars, shutdownVars, feedVars, threadVars, parseVars, tierVars>>
SpecRequest == InitRQ /\ [][NextRQ]_vars

InitFD == InitLiveIdle /\ InitHistIdle /\ InitShutdownIdle /\ InitRequestIdle
            /\ InitFeed /\ InitThreadIdle /\ InitParseIdle /\ InitTierIdle
NextFD ==
    \/ FeedInitialFetch /\ UNCHANGED <<liveVars, histVars, shutdownVars, requestVars, threadVars, parseVars, tierVars>>
    \/ FeedDecide /\ UNCHANGED <<liveVars, histVars, shutdownVars, requestVars, threadVars, parseVars, tierVars>>
    \/ FeedSleepAndFetch /\ UNCHANGED <<liveVars, histVars, shutdownVars, requestVars, threadVars, parseVars, tierVars>>
SpecFeed == InitFD /\ [][NextFD]_vars

InitTH == InitLiveIdle /\ InitHistIdle /\ InitShutdownIdle /\ InitRequestIdle
            /\ InitFeedIdle /\ InitThread /\ InitParseIdle /\ InitTierIdle
NextTH ==
    \/ (\E c \in Combos : WorkerStart(c))
          /\ UNCHANGED <<liveVars, histVars, shutdownVars, requestVars, feedVars, parseVars, tierVars>>
    \/ (\E c \in Combos : WorkerRequest(c))
          /\ UNCHANGED <<liveVars, histVars, shutdownVars, requestVars, feedVars, parseVars, tierVars>>
    \/ (\E c \in Combos : WorkerLoadErrors(c))
          /\ UNCHANGED <<liveVars, histVars, shutdownVars, requestVars, feedVars, parseVars, tierVars>>
    \/ (\E c \in Combos : WorkerStoreErrors(c))
          /\ UNCHANGED <<liveVars, histVars, shutdownVars, requestVars, feedVars, parseVars, tierVars>>
    \/ (\E c \in Combos : MainCollect(c))
          /\ UNCHANGED <<liveVars, histVars, shutdownVars, requestVars, feedVars, parseVars, tierVars>>
SpecThreads == InitTH /\ [][NextTH]_vars

InitPE == InitLiveIdle /\ InitHistIdle /\ InitShutdownIdle /\ InitRequestIdle
            /\ InitFeedIdle /\ InitThreadIdle /\ InitParse /\ InitTierIdle
NextPE == ParseEmbedded /\ UNCHANGED <<liveVars, histVars, shutdownVars, requestVars,
                                      feedVars, threadVars, tierVars>>
SpecParse == InitPE /\ [][NextPE]_vars

InitTR == InitLiveIdle /\ InitHistIdle /\ InitShutdownIdle /\ InitRequestIdle
            /\ InitFeedIdle /\ InitThreadIdle /\ InitParseIdle /\ InitTier
NextTR ==
    \/ TierInitialFetch
          /\ UNCHANGED <<liveVars, histVars, shutdownVars, requestVars, feedVars, threadVars, parseVars>>
    \/ TierSleepAndFetch
          /\ UNCHANGED <<liveVars, histVars, shutdownVars, requestVars, feedVars, threadVars, parseVars>>
    \/ TierConsolidatedCheck
          /\ UNCHANGED <<liveVars, histVars, shutdownVars, requestVars, feedVars, threadVars, parseVars>>
SpecTier == InitTR /\ [][NextTR]_vars

(***************************************************************************)
(* Properties of the change-detection upsert engine (Spec)                 *)
(***************************************************************************)
MaxOf(S) == CHOOSE i \in S : \A j \in S : j <= i
LastQuoteOf(s, k) == s[MaxOf(QuotesOf(s, k))]
WritePositions == UNION {{<<i, j>> : j \in DOMAIN writes[i].records} : i \in DOMAIN writes}
WrittenRecords == {writes[p[1]].records[p[2]] : p \in WritePositions}
\* number of records for key k handed to the persistence layer
SentCount(k) ==
    Cardinality({p \in WritePositions : KeyOf(writes[p[1]].records[p[2]]) = k})
QuotedOnce(k) == Cardinality(QuotesOf(odds_data, k)) = 1
\* keys matched by the filter of the existing-odds query
CoveredKeys == {k \in Keys : k[1] \in race_ids}
ReadIssued == called /\ ~disable_change_detection /\ race_ids # {}
\* the batches of the last call for which a write was issued
WriteBatchesOf(to_upsert) ==
    SelectSeq(AllBatches(to_upsert), LAMBDA b : Prepared(b) # <<>>)
FailedWrites == {i \in DOMAIN writes : writes[i].result = "fail"}

C2_EqualToPersistedNeverWritten ==
    called =>
      \A i \in DOMAIN odds_data :
         LET q == odds_data[i] IN
         (HasIds(q) /\ db_before[KeyOf(q)] = <<q.odds_decimal>>)
            => (q \in classified.skipped /\ SentCount(KeyOf(q)) = 0)

\* C2 (amended): with change detection enabled, a quote whose value equals
\* the value the cycle's existing-odds read returned for its key is
\* classified skipped and is part of no write of the cycle.
C2_EqualToReadValueSkipped ==
    (called /\ ~disable_change_detection) =>
      /\ \A i \in DOMAIN odds_data :
            LET q == odds_data[i] IN
            (HasIds(q) /\ existing_odds_map[KeyOf(q)] = <<q.odds_decimal>>)
               => /\ q \in classified.skipped
                  /\ q \notin SeqRange(odds_to_upsert)
                  /\ q \notin WrittenRecords
      /\ ret.skipped =
            Cardinality({i \in DOMAIN odds_data :
                HasIds(odds_data[i]) /\
                existing_odds_map[KeyOf(odds_data[i])]
                    = <<odds_data[i].odds_decimal>>})

C2_Witness ==
    /\ called /\ ~disable_change_detection /\ ret.skipped >= 1
    /\ \E i \in DOMAIN odds_data :
          /\ HasIds(odds_data[i])
          /\ db_before[KeyOf(odds_data[i])] = <<odds_data[i].odds_decimal>>
          /\ odds_data[i] \in classified.skipped
          /\ SentCount(KeyOf(odds_data[i])) = 0

\* C3 (as stated): a quote whose value differs from the persisted value of
\* its key puts exactly one record for that key into the write set and is
\* classified updated, not new and not skipped.
C3_ChangedFromPersistedWrittenOnce ==
    called =>
      \A i \in DOMAIN odds_data :
         LET q == odds_data[i] IN
         (HasIds(q) /\ db_before[KeyOf(q)] # <<>>
                    /\ db_before[KeyOf(q)] # <<q.odds_decimal>>)
            => /\ SentCount(KeyOf(q)) = 1
               /\ q \in classified.updated
               /\ q \notin classified.inserted
               /\ q \notin classified.skipped

\* C3 (amended): with change detection enabled, when the read returned a
\* value for the key and the batch carries exactly one quote for that key,
\* with a different value and with all required fields, exactly one record
\* for the key is handed to the persistence layer and the quote is counted
\* as updated, not as new and not as skipped.
C3_ChangedFromReadValueWrittenOnce ==
    (called /\ ~disable_change_detection) =>
      \A i \in DOMAIN odds_data :
         LET q == odds_data[i] IN
         (/\ HasIds(q) /\ q.complete
          /\ QuotedOnce(KeyOf(q))
          /\ existing_odds_map[KeyOf(q)] # <<>>
          /\ existing_odds_map[KeyOf(q)] # <<q.odds_decimal>>)
            => /\ SentCount(KeyOf(q)) = 1
               /\ q \in classified.updated
               /\ q \notin classified.inserted
               /\ q \notin classified.skipped

C3_Witness ==
    /\ called /\ ~disable_change_detection /\ ret.updated = 1
    /\ \E i \in DOMAIN odds_data :
          /\ HasIds(odds_data[i]) /\ odds_data[i].complete
          /\ QuotedOnce(KeyOf(odds_data[i]))
          /\ existing_odds_map[KeyOf(odds_data[i])] # <<>>
          /\ existing_odds_map[KeyOf(odds_data[i])] # <<odds_data[i].odds_decimal>>
          /\ db[KeyOf(odds_data[i])] = <<odds_data[i].odds_decimal>>

EligibleMinutes(rs, v) ==
    {rs[i].minutes : i \in {j \in DOMAIN rs :
        rs[j].off_dt = "ok" /\ rs[j].minutes >= 0 - GracePeriod(v)}}

MinOf(S) == CHOOSE x \in S : \A y \in S : x <= y

\* C4 (live-odds control loop): after max_consecutive_errors (5) consecutive
\* failed fetch cycles the loop halts and starts no further cycle, so a run
\* of consecutive failed cycles never grows beyond 5.
C4_HaltsAfterMaxConsecutiveFailures ==
    failed_run <= max_consecutive_errors

\* C5 (live-odds control loop): when a fetch cycle fails with an exception,
\* the wait before the next fetch cycle is the fixed 60-second backoff and
\* not the interval computed from race proximity.
C5_FailedCycleFollowedByFixedBackoff ==
    (cycles >= 2 /\ prev_failed) =>
        waited = <<Sleep("backoff", BACKOFF_SECONDS)>>

\* C9 (get_optimal_interval): the interval is 10 s when the nearest race in
\* play is at most 5 minutes away, 60 s when more than 5 and at most 30,
\* 300 s when more than 30 and at most 120, and 900 s when it is further
\* away or when no race is in play.
C9_IntervalTiers ==
    decided =>
       LET ms == EligibleMinutes(races, variant) IN
       IF ms = {} THEN interval = 900
       ELSE LET m == MinOf(ms) IN
            /\ (m <= 5) => interval = 10
            /\ (m > 5 /\ m <= 30) => interval = 60
            /\ (m > 30 /\ m <= 120) => interval = 300
            /\ (m > 120) => interval = 900

\* C10 (get_optimal_interval): when the nearest race's minutes-until-start
\* decrease from one decision to the next, the interval does not increase.
C10_IntervalMonotone ==
    (ticks > 0) =>
       LET before == EligibleMinutes(prev_races, variant)
           after == EligibleMinutes(races, variant)
       IN (before # {} /\ after # {} /\ MinOf(after) <= MinOf(before))
             => interval <= prev_interval

C9_Witness ==
    /\ decided
    /\ Len(races) = 2
    /\ races[1] = Race("ok", 0 - 11)
    /\ races[2] = Race("ok", 5)
    /\ interval = 10

C10_Witness ==
    /\ ticks > 0
    /\ EligibleMinutes(prev_races, variant) # {}
    /\ EligibleMinutes(races, variant) # {}
    /\ MinOf(EligibleMinutes(races, variant))
          < MinOf(EligibleMinutes(prev_races, variant))
    /\ interval < prev_interval

\* C11 (get_optimal_interval): the decision rests on the minimum minutes
\* until start over exactly the races not further past their start than the
\* grace period; a race that started longer ago never influences it, so
\* dropping such races from the list gives the same interval.
C11_ExcludedRacesIgnored ==
    decided =>
       LET inplay == SelectSeq(races, LAMBDA r :
                        r.off_dt = "ok" => r.minutes >= 0 - GracePeriod(variant))
           ms == EligibleMinutes(races, variant)
       IN /\ interval = get_optimal_interval(inplay, variant)
          /\ ms # {} => interval = IntervalFor(MinOf(ms))
          /\ ms = {} => interval = INTERVAL_CHECK

C11_Witness ==
    /\ decided
    /\ Len(races) = 2
    /\ races[1].off_dt = "ok" /\ races[1].minutes < 0 - GracePeriod(variant)
    /\ races[2] = Race("ok", 30)
    /\ interval = INTERVAL_SOON

\* ---- property helpers: join ----------------------------------------------
\* racecard runner entries: <<index of racecard, index of runner>>
RacecardRunners ==
    {p \in (1..MaxRacecards) \X (1..MaxRunners) :
        p[1] \in DOMAIN racecards /\ p[2] \in DOMAIN racecards[p[1]].runners}

\* the runner's race id and horse id both appear in the results
InResults(rid, hid) ==
    \E i \in DOMAIN results :
        /\ results[i].race_id = rid
        /\ \E j \in DOMAIN results[i].runners : results[i].runners[j] = hid

RecordsFor(rid, hid) ==
    {n \in DOMAIN joined_records : joined_records[n] = JoinedRecord(rid, hid)}

ScenarioRace ==
    [i \in 1..6 |-> Runner(Num(ScenarioPrices[i]), Pos(i))]

HasSp(i) == race_runners[i].sp_dec.kind = "num"
HasPos(i) == race_runners[i].position.kind = "digits"
SpAt(i) == race_runners[i].sp_dec.milli
PosAt(i) == race_runners[i].position.n

C14_PlaceReturnByTerms ==
    mapped_done =>
       \A i \in DOMAIN mapped_records :
          (HasSp(i) /\ HasPos(i)) =>
             LET n == Len(race_runners)
                 place == mapped_records[i].place_return
                 den == IF n >= 8 /\ n <= 11 THEN 5 ELSE 4
                 places == IF n >= 16 THEN 4 ELSE IF n >= 8 THEN 3 ELSE 2
             IN /\ (n < 5) => place = <<>>
                /\ (n >= 5 /\ PosAt(i) <= places) =>
                      /\ place # <<>>
                      /\ (place[1] - 1000) * den = SpAt(i) - 1000
                /\ (n >= 5 /\ PosAt(i) > places) => place = <<0>>
                /\ (n = 8 /\ PosAt(i) = 3) => place # <<0>>
                /\ (n = 8 /\ PosAt(i) = 4) => place = <<0>>

C14_Witness ==
    /\ mapped_done
    /\ Len(race_runners) = 8
    /\ \E i, j \in DOMAIN race_runners :
          /\ HasSp(i) /\ HasPos(i) /\ PosAt(i) = 3
          /\ HasSp(j) /\ HasPos(j) /\ PosAt(j) = 4
          /\ mapped_records[i].place_return # <<>>
          /\ mapped_records[i].place_return[1] > 1000
          /\ mapped_records[j].place_return = <<0>>

\* C15 (calculate_sp_favorite_position): within a race the favourite rank
\* follows ascending starting price, the lowest price at rank 1, and runners
\* with equal prices get the same rank; prices 2.0, 2.0, 4.0 give ranks
\* 1, 1 for the two runners at 2.0.
C15_FavoriteRankByAscendingPrice ==
    mapped_done =>
       /\ \A i \in DOMAIN mapped_records :
             HasSp(i) =>
                /\ mapped_records[i].sp_favorite_position # <<>>
                /\ (\A j \in DOMAIN race_runners : HasSp(j) => SpAt(i) <= SpAt(j))
                      => mapped_records[i].sp_favorite_position = <<1>>
       /\ \A i, j \in DOMAIN mapped_records :
             (HasSp(i) /\ HasSp(j)) =>
                LET ri == mapped_records[i].sp_favorite_position[1]
                    rj == mapped_records[j].sp_favorite_position[1]
                IN /\ (SpAt(i) = SpAt(j)) => ri = rj
                   /\ (SpAt(i) < SpAt(j)) => ri < rj

C15_Witness ==
    /\ mapped_done
    /\ Len(race_runners) = 3
    /\ [i \in 1..3 |-> race_runners[i].sp_dec]
          = <<Num(2000), Num(2000), Num(4000)>>
    /\ mapped_records[1].sp_favorite_position = <<1>>
    /\ mapped_records[2].sp_favorite_position = <<1>>

\* C16 (per-date processing): when the racecards fetch, the results fetch,
\* the join or the mapping yields an empty collection, the date ends in the
\* "no data" outcome: nothing is persisted for it and it is not reported as
\* a failure.
C16_EmptyStageEndsInNoData ==
    (date_outcome # "pending" /\ date_stage # "persisted") =>
        /\ date_outcome = "no_data"
        /\ date_persisted = {}

\* C17 (upsert_odds): a persist updates the row with the record's natural
\* key (date, track, scheduled time, horse name) if there is one and inserts
\* otherwise, so the store holds exactly one row per distinct natural key
\* that was persisted.
C17_OneRowPerNaturalKey ==
    /\ \A k \in persisted :
          Cardinality({i \in DOMAIN hist_rows : NaturalKey(hist_rows[i]) = k}) = 1
    /\ \A i \in DOMAIN hist_rows : NaturalKey(hist_rows[i]) \in persisted

\* C18 (get_missing_dates after a restart): the missing-dates list of the
\* first cycle after a restart excludes exactly the dates already persisted
\* and contains every other date from the start date to yesterday, whatever
\* the state file holds.
C18_MissingListIsRangeMinusPersisted ==
    (last_scan # <<>> /\ last_scan[1].after_restart)
        => Elements(last_scan[1].missing_dates)
              = (START_DAY .. (last_scan[1].today - 1)) \ last_scan[1].store

DailyPcs == {"daily_wait"}

\* C20 (run_continuous): once the completion flag is set, every step of the
\* process (and the start of a new process that read the flag) keeps it set
\* and leaves the process in daily-maintenance mode: no cycle of the
\* aggressive phase runs again.
C20_CompletionIsPermanent ==
    [][(bf_state.backfill_complete /\ bf_pc' # "start")
          => (bf_state'.backfill_complete /\ bf_pc' \in DailyPcs)]_vars

\* a daily job that ran its chunk of missing dates after completion
C20_Witness ==
    /\ bf_state.backfill_complete
    /\ bf_pc = "daily_wait"
    /\ last_scan # <<>>
    /\ last_scan[1].missing_dates # <<>>
    /\ bf_restarted = FALSE

\* C21 (save_state): the persisted backfill state is only advanced: a state
\* file that exists is never removed or reset, and the count of processed
\* dates it holds never decreases from one write to the next.
C21_StateFileOnlyAdvances ==
    [][bf_state_file # <<>>
          => /\ bf_state_file' # <<>>
             /\ bf_state_file'[1].dates_processed
                   >= bf_state_file[1].dates_processed]_vars

\* C22 (signal handlers and control loops): after a shutdown signal the loop
\* observes it at the next point between cycles and starts no new cycle.
C22_NoCycleStartsAfterShutdownSignal ==
    sd_started_after = 0

\* C23 (in-flight cycle at shutdown): a cycle in flight when shutdown is
\* requested runs to completion; no cycle is abandoned with only part of
\* its batches written.
C23_InFlightCycleNotPreempted ==
    ~(sd_preempted /\ 0 < sd_batches /\ sd_batches < CycleBatches)

\* the outcome a single answer gives a request
OutcomeOf(status) ==
    IF status = "200" THEN "data" ELSE IF status = "404" THEN "none" ELSE "error"

\* C24 (HTTP 429): a request answered with 429 is sent exactly once more
\* after the cooldown, the answer to the retry decides the outcome of the
\* request, and a second 429 ends it as an ordinary failure.
C24_RateLimitRetriedExactlyOnce ==
    \A u \in 1..MaxUnits :
        (rq_statuses[u] # <<>> /\ rq_statuses[u][1] = "429"
            /\ (rq_unit > u \/ Len(rq_statuses[u]) > 2))
        => /\ Len(rq_statuses[u]) = 2
           /\ rq_outcome[u] = OutcomeOf(rq_statuses[u][2])

\* the quotes the last call actually wrote to the table
WrittenQuotes ==
    UNION {SeqRange(writes[i].records) :
              i \in {j \in DOMAIN writes : writes[j].result # "fail"}}

\* C25 (cache invalidation): the cache-invalidation signal is emitted in a
\* cycle only if at least one quote was written to the table in that cycle.
C25_InvalidationOnlyAfterWrite ==
    cache_invalidated => WrittenQuotes # {}

(***************************************************************************)
(* C26: a record that lacks a required field is skipped and counted in the *)
(* statistics, and the remaining records of the batch are still processed. *)
(* For update_live_odds with change detection: every quote of the call is  *)
(* accounted for by one of the returned counters (inserted, updated,       *)
(* skipped, errors), the quotes lacking race_id, horse_id or bookmaker_id  *)
(* included, and every changed or new quote that has its ids is selected   *)
(* for upsert.                                                             *)
(***************************************************************************)
MissingIdRecords == {i \in DOMAIN odds_data : ~HasIds(odds_data[i])}

C26_MissingFieldRecordSkippedAndCounted ==
    (called /\ ~disable_change_detection /\ MissingIdRecords # {})
       => /\ ret.inserted + ret.updated + ret.skipped + ret.errors
                >= Len(odds_data)
          /\ \A i \in DOMAIN odds_data :
                IsChangedOrNew(existing_odds_map, odds_data[i])
                   => odds_data[i] \in SeqRange(odds_to_upsert)

(***************************************************************************)
(* C27: every race that fed an interval decision, in particular the        *)
(* nearest race that justified the chosen interval, is included in the     *)
(* race set processed by the next fetch cycle.                             *)
(***************************************************************************)
C27_DecisionRacesAreFetchedNext ==
    [][fd_pc = "sleep"
          => /\ fd_fed \subseteq fd_processed'
             /\ SeqRange(fd_nearest) \subseteq fd_processed']_vars

(***************************************************************************)
(* C28: no mutable scheduler state (failure counter, last-fetch time,      *)
(* fetch statistics counters) is read or written by more than one          *)
(* concurrently running loop or worker thread: no two threads are inside   *)
(* an update of stats['errors'] at the same time, and the counter ends at  *)
(* the number of requests that raised.                                     *)
(***************************************************************************)
C28_NoCounterSharedBetweenThreads ==
    /\ th_in_update = {}
    /\ (\A c \in Combos : th_pc[c] = "done")
          => th_errors = Cardinality(th_raised)

(***************************************************************************)
(* C29: on startup the scheduler runs its first fetch cycle immediately,   *)
(* before any sleep or interval wait.                                      *)
(***************************************************************************)
\* as stated: no wait precedes the first fetch cycle
C29_FirstCycleBeforeAnySleep ==
    [][(cycles = 0 /\ cycles' = 1) => waited' = <<>>]_vars

\* C29, amended: the step taken at startup is a fetch attempt with no sleep
\* or interval wait before it, and the first fetch cycle is preceded by a
\* wait only under ConsolidatedScheduler, when run_live_odds failed before
\* reaching run_fetch_cycle both at startup and in the loop: the wait is
\* then the 300-second default
C29_FirstAttemptBeforeAnySleep ==
    [][/\ pc = "start" => (pending_sleeps = <<>> /\ waited' = <<>>)
       /\ (cycles = 0 /\ cycles' = 1 /\ waited' # <<>>)
             => /\ driver = "consolidated"
                /\ pc = "loop"
                /\ \A i \in DOMAIN waited' :
                      waited'[i] = Sleep("default", ERROR_INTERVAL)]_vars

C29_Witness ==
    /\ cycles = 1
    /\ pc = "loop"
    /\ waited = <<>>
    /\ last_event = "ok"

(***************************************************************************)
(* C30: when the bypass flag is set, change detection is bypassed          *)
(* entirely: no existing-value read is performed and every quote of the    *)
(* incoming batch is upserted, none being classified skipped.  The whole   *)
(* batch goes to the store in one upsert statement; when the store accepts *)
(* it every key of the batch holds its quote, and when the store rejects   *)
(* it the call raises.                                                     *)
(***************************************************************************)
C30_BypassUpsertsEveryQuote ==
    (called /\ disable_change_detection)
       => /\ race_ids = {}
          /\ existing_odds_map = NoMap
          /\ ~read_failed
          /\ odds_to_upsert = odds_data
          /\ classified.skipped = {}
          /\ ret.skipped = 0
          /\ Len(writes) = 1
          /\ writes[1].records = odds_data
          /\ raised <=> writes[1].result = "fail"
          /\ ~raised
                => /\ ret.updated = Len(odds_data)
                   /\ \A i \in DOMAIN odds_data :
                         db[KeyOf(odds_data[i])] = <<odds_data[i].odds_decimal>>

\* a bypass call wrote a batch holding a quote equal to the persisted value
C30_Witness ==
    /\ called
    /\ disable_change_detection
    /\ ~raised
    /\ Len(odds_data) >= 2
    /\ \E i \in DOMAIN odds_data :
          db_before[KeyOf(odds_data[i])] = <<odds_data[i].odds_decimal>>

(***************************************************************************)
(* C31: the historical scheduler leaves the aggressive backfill phase and  *)
(* enters daily-maintenance mode only after backfill completion has been   *)
(* declared; while backfill is incomplete it keeps running backfill        *)
(* cycles.                                                                 *)
(***************************************************************************)
AggressivePcs == {"start", "p1_check", "p1_cycle", "p1_after"}

C31_DailyModeOnlyAfterCompletion ==
    [][(bf_pc \in AggressivePcs /\ bf_pc' = "daily_wait")
          => bf_state'.backfill_complete]_vars

(***************************************************************************)
(* C32: the consecutive-failure counter always equals the number of fetch  *)
(* cycles that have failed since the most recent cycle that returned       *)
(* success: each failed cycle adds exactly one and every cycle that        *)
(* returns success resets it to zero.                                      *)
(***************************************************************************)
C32_CounterIsFailedRunLength ==
    consecutive_errors = failed_run

(***************************************************************************)
(* C33: run_fetch_cycle returns True only if the cycle was successful: if  *)
(* fetching the upcoming races or fetching and storing the odds fails      *)
(* during the cycle, it returns False and the cycle counts as a failed     *)
(* cycle.                                                                  *)
(***************************************************************************)
C33_TrueOnlyForSuccessfulCycle ==
    last_return = "True" => last_event \in {"ok", "no_races"}

(***************************************************************************)
(* C34: if the read of existing odds fails, the engine falls back to       *)
(* upserting all quotes of the batch: no quote is classified skipped in    *)
(* that cycle and every quote with valid identifiers is sent to the        *)
(* persistence layer.                                                      *)
(***************************************************************************)
IdentifiedQuotes == {q \in SeqRange(odds_data) : HasIds(q)}

\* as stated
C34_ReadFailureSendsEveryIdentifiedQuote ==
    (called /\ read_failed)
       => /\ classified.skipped = {}
          /\ ret.skipped = 0
          /\ IdentifiedQuotes \subseteq WrittenRecords

\* C34, amended: after a failed read no quote is classified skipped, every
\* quote with valid identifiers is selected for upsert, and those of them
\* that carry all required fields (race_date, course, horse_name,
\* bookmaker_name, odds_timestamp) are sent to the persistence layer; the
\* others are dropped by _prepare_live_record
C34_ReadFailureSendsEveryCompleteQuote ==
    (called /\ read_failed)
       => /\ existing_odds_map = NoMap
          /\ classified.skipped = {}
          /\ ret.skipped = 0
          /\ SeqRange(odds_to_upsert) = IdentifiedQuotes
          /\ WrittenRecords = {q \in IdentifiedQuotes : q.complete}

\* after a failed read a quote equal to the persisted value was sent
C34_Witness ==
    /\ called
    /\ read_failed
    /\ \E q \in WrittenRecords : db_before[KeyOf(q)] = <<q.odds_decimal>>

(***************************************************************************)
(* C35: the runner count that selects the each-way place terms of a        *)
(* record, and the runner set used for its favorite rank, are the full set *)
(* of runners in that record's race: the runners map_batch passes for a    *)
(* joined record are exactly the runners of the race's result.             *)
(***************************************************************************)
C35_AllRunnersIsTheRaceField ==
    joined_done
       => \A i \in DOMAIN joined_records :
             LET rid == joined_records[i].race_id
                 all_runners == RunnersOfRace(joined_records, rid)
                 field == results_by_race(results, rid)[1].runners
             IN /\ Len(all_runners) = Len(field)
                /\ {all_runners[j].horse_id : j \in DOMAIN all_runners}
                      = SeqRange(field)

(***************************************************************************)
(* C36: for every provider response, the normalized batch of one fetch     *)
(* cycle contains at most one current quote per (race id, runner id,       *)
(* bookmaker id) key: the quotes parsed for one runner of one race carry   *)
(* pairwise different bookmaker ids.                                       *)
(***************************************************************************)
C36_OneQuotePerKeyInBatch ==
    \A i, j \in DOMAIN pe_odds_list :
       i # j => pe_odds_list[i].bookmaker_id # pe_odds_list[j].bookmaker_id

(***************************************************************************)
(* C37: in every cycle each incoming quote is counted in exactly one of    *)
(* the classes new (inserted), updated, skipped or error, so that          *)
(* inserted + updated + skipped + errors equals the number of incoming     *)
(* quotes, also when a batch write fails.                                  *)
(***************************************************************************)
C37_CountersPartitionTheBatch ==
    (called /\ ~raised)
       => ret.inserted + ret.updated + ret.skipped + ret.errors
             = Len(odds_data)

(***************************************************************************)
(* C38: for a race first seen more than 120 minutes before its start, with *)
(* every cycle succeeding, no proximity tier is skipped: once the race is  *)
(* 30 minutes away or nearer a fetch cycle has started while it was        *)
(* between 30 and 120 minutes away, once it is 5 minutes away or nearer a  *)
(* cycle has started while it was between 5 and 30 minutes away, and once  *)
(* it is off a cycle has started within its final 5 minutes.               *)
(***************************************************************************)
TiersPassed ==
    LET m == MinutesUntil(tr_off["r1"], tr_now) IN
    /\ m <= THRESHOLD_SOON => "upcoming" \in tr_seen
    /\ m <= THRESHOLD_IMMINENT => "soon" \in tr_seen
    /\ tr_now > tr_off["r1"] => "imminent" \in tr_seen

MissingNow == get_missing_dates(bf_store, START_DAY, bf_today - 1, TRUE)

C39_NoDataDatesNeverBlock ==
    bf_pc = "daily_wait"
       => \/ Elements(MissingNow) \subseteq bf_no_data
          \/ ~(Elements(FirstN(MissingNow, CHUNK_DATES_PER_CYCLE)) \subseteq bf_no_data)

(***************************************************************************)
(* C40: a date stops being reported as missing only once all of its mapped *)
(* records have been persisted.  get_missing_dates reports a date as long  *)
(* as the table holds no row of it, so: after a date was processed, if the *)
(* table holds a row of the date it holds every mapped record of the date. *)
(***************************************************************************)
DateMapped ==
    SeqRange(map_batch(fetch_complete_date_data(date_racecards, date_results),
                       mappable))

DateReportedMissing == date_persisted = {}

C40_MissingUntilFullyPersisted ==
    (date_outcome # "pending" /\ ~DateReportedMissing)
       => date_persisted = DateMapped

==============================================================================
